---- MODULE Spec2Model ----
(***************************************************************************)
(* Credit-based task marketplace of the promotion bot.                     *)
(*                                                                         *)
(* The durable state is the SQLite store of database.py (tables users,     *)
(* promotions, claimed_promos).  Every function of database.py opens its   *)
(* own connection and commits, so one call is one atomic step; a handler   *)
(* of handlers.py is a sequence of such steps, one per awaited call, and   *)
(* its position is kept in procs[s].pc.                                    *)
(*                                                                         *)
(* Spec     : one handler at a time (Application.builder() of main.py is   *)
(*            built without concurrent updates); scheduled jobs still run  *)
(*            between the awaited calls of a handler.                      *)
(* SpecConc : NumSlots handlers interleave at the awaited calls (the       *)
(*            "independent units of work" of the design).                  *)
(***************************************************************************)
EXTENDS Integers, Sequences, FiniteSets, TLC

VARIABLES
    users,           \* table users: user_id -> row (DOMAIN = registered ids)
    promotions,      \* table promotions: sequence, promo_id = position (AUTOINCREMENT)
    claimed_promos,  \* table claimed_promos: <<user_id, promo_id>> -> number of rows
    tokens,          \* callback_data of the task buttons sent so far, with the chat they were sent to
    procs,           \* per running handler: position and local variables
    hist,            \* history: per <<user_id, promo_id>> how often each effect of a claim was applied
    created,         \* history: the promotion rows as they were inserted
    completed,       \* history: pairs for which a claim/verify handler ran to its end
    groups,          \* table groups: group_id -> row (DOMAIN = known groups)
    usage,           \* history: per account the fan-outs made since the last reset
    feature_flags,   \* table feature_flags: name -> is_enabled (DOMAIN = seeded names)
    user_data,       \* context.user_data: per account the scratch keys and their values
    conversations    \* per account the state create_promotion_handler is in (END: none)

vars == <<users, promotions, claimed_promos, tokens, procs, hist, created, completed,
          groups, usage, feature_flags,
                   user_data, conversations>>

-----------------------------------------------------------------------------
(* Bounds of the model *)

NumUsers == 3        \* accounts of Spec
MaxPromos == 2       \* promotions funded in Spec
MaxBudget == 1       \* largest budget sent in Spec
NumSlots == 2        \* handlers running at once in SpecConc
NumConcUsers == 3    \* accounts of SpecConc
MaxConcPromos == 1   \* promotions funded in SpecConc
MaxConcBudget == 2   \* largest budget sent in SpecConc
NumScenUsers == 5    \* accounts of SpecScenario
MaxScenPromos == 1   \* promotions funded in SpecScenario
MaxScenBudget == 3   \* largest budget sent in SpecScenario
NumLedgerUsers == 2  \* accounts of SpecLedger
MaxLedgerPromos == 1 \* promotions funded in SpecLedger
MaxLedgerBudget == 4 \* largest budget sent in SpecLedger
NumFanUsers == 3     \* accounts of SpecFanout
NumGroups == 2       \* groups the bot can be added to
NumQuotaUsers == 2   \* accounts of SpecShareConc and SpecImageConc
ImagesLeft == 1      \* image allowance the premium account has left when SpecImageConc starts
MaxCredits == 7      \* the daily reset is not run beyond this balance
NumResetUsers == 2   \* accounts of SpecReset
MaxResetCredits == 14 \* the daily reset of SpecReset is not run beyond this balance
NumInputUsers == 2   \* accounts of SpecInput
NumDataUsers == 2    \* accounts of SpecData
MaxDataPromos == 1   \* promotions funded in SpecData
MaxDataBudget == 1   \* largest budget sent in SpecData
MaxInputPromos == 1  \* promotions funded in SpecInput
NumFlagUsers == 2    \* accounts of SpecFlags
MaxFlagPromos == 1   \* promotions funded in SpecFlags
MaxFlagBudget == 1   \* largest budget sent in SpecFlags
FlagCount == 1       \* the count sent to the image broadcast in SpecFlags
ShortPremiumDays == 7 \* a second number of premium days sent in SpecPremium
NumReferralUsers == 2 \* accounts registered when SpecReferral starts
MaxReferralUsers == 4 \* largest account id that sends /start in SpecReferral
MaxReferralCredits == 13 \* the daily reset of SpecReferral is not run beyond this balance
NumFrameUsers == 2   \* accounts of SpecFrame
NumPromoUsers == 2   \* accounts of SpecPromo
MaxPromoPromos == 2  \* promotions funded in SpecPromo
MaxPromoBudget == 1  \* largest budget sent in SpecPromo
NumChannels == 2     \* channels an account can name as its force-join channel
NumFlowUsers == 2    \* accounts of SpecFlow
NumGroupUsers == 2   \* accounts of SpecGroups
NumBanUsers == 2     \* accounts of SpecBan
MaxBanPromos == 1    \* promotions funded in SpecBan
MaxFlowPromos == 2   \* promotions funded in SpecFlow
FrameViews == 3      \* a second views count an account holds when SpecFrame starts

(* Program constants *)

DefaultCredits == 5
DefaultPromoRuns == 2
PremiumPromoRuns == 5
ImageBroadcastCap == 100
ReferralBonus == 2
NormalReward == 1
NormalRewardPremium == 2
ForceJoinReward == 2
ForceJoinRewardPremium == 4
GroupLimit == 5
GroupLimitPremium == 10
GroupReward == 5
GroupRewardPremium == 10
GroupRewardMembers == 600
\* LINK_TEXT, LINK_URL = range(2); AWAIT_PROMO_TYPE_FOR_CREATION, AWAIT_BUDGET =
\* range(2, 4); AWAIT_IMAGE_FOR_BROADCAST, AWAIT_BROADCAST_COUNT = range(4, 6)
LINK_URL == 1
AWAIT_PROMO_TYPE_FOR_CREATION == 2
AWAIT_BUDGET == 3
AWAIT_BROADCAST_COUNT == 5
\* ConversationHandler.END
END == -1

Max(a, b) == IF a > b THEN a ELSE b

UserIds == 1..Max(Max(Max(NumUsers, NumConcUsers), Max(NumScenUsers, NumLedgerUsers)),
                  Max(Max(NumFanUsers, NumQuotaUsers), NumResetUsers))
PromoIds == 1..Max(Max(MaxPromos, MaxConcPromos), Max(MaxScenPromos, MaxLedgerPromos))
Slots == 1..NumSlots
\* the private chats a handler can be called for, registered or not
Chats == UserIds \cup (1..MaxReferralUsers)
\* context.user_data of a chat with no key set
NoData == [key \in {} |-> ""]
\* context.user_data[key] = value
SetData(data, key, value) ==
    [k \in DOMAIN data \cup {key} |-> IF k = key THEN value ELSE data[k]]
Pairs == UserIds \X PromoIds
PromoTypes == {"normal", "force_join"}

Min(a, b) == IF a < b THEN a ELSE b

RECURSIVE SumOver(_, _)
SumOver(S, f) ==
    IF S = {} THEN 0
    ELSE LET x == CHOOSE y \in S : TRUE IN f[x] + SumOver(S \ {x}, f)

-----------------------------------------------------------------------------
(* database.py: each operator is one function, applied to the table value *)

NewUserRow ==
    [credits |-> DefaultCredits, referral_credits |-> 0, is_premium |-> FALSE,
     is_banned |-> FALSE, daily_promo_runs |-> DefaultPromoRuns,
     image_broadcasts_left |-> ImageBroadcastCap, force_join_channel_id |-> 0,
     clicks_received |-> 0, normal_promo_url |-> "", premium_expiry |-> <<>>]

\* SELECT * FROM users WHERE user_id = ?  (<<row>>, or <<>> for None)
get_user(u, user_id) ==
    IF user_id \in DOMAIN u THEN <<u[user_id]>> ELSE <<>>

\* the update as "SET credits = ?"
update_user_credits_set(u, user_id, amount) ==
    [x \in DOMAIN u |->
        IF x = user_id THEN [u[x] EXCEPT !.credits = amount] ELSE u[x]]

\* UPDATE users SET credits = credits + ? WHERE user_id = ?
update_user_credits(u, user_id, amount) ==
    [x \in DOMAIN u |->
        IF x = user_id THEN [u[x] EXCEPT !.credits = @ + amount] ELSE u[x]]

\* UPDATE users SET clicks_received = clicks_received + 1 WHERE user_id = ?
increment_clicks_received(u, user_id) ==
    [x \in DOMAIN u |->
        IF x = user_id THEN [u[x] EXCEPT !.clicks_received = @ + 1] ELSE u[x]]

\* INSERT INTO promotions (...) VALUES (...): promo_id is the next sequence number;
\* promo_url stands for the payload columns of a normal promotion (promo_text,
\* promo_url, promo_chat_id, promo_message_id), "" for NULL
add_promotion(p, user_id, promo_type, budget, channel_id, url) ==
    Append(p, [promoter_user_id |-> user_id, promo_type |-> promo_type,
               budget |-> budget, channel_id |-> channel_id, promo_url |-> url])

\* rows of: promotions p LEFT JOIN claimed_promos cp
\*          ON p.promo_id = cp.promo_id AND cp.user_id = ?
\* one row per matching claimed_promos row, or one row with cp NULL (0)
JoinRows(p, cp, user_id) ==
    UNION { IF cp[<<user_id, promo_id>>] = 0
            THEN {[promo_id |-> promo_id, cp_promo_id |-> 0, n |-> 1]}
            ELSE {[promo_id |-> promo_id, cp_promo_id |-> promo_id, n |-> k] :
                     k \in 1..cp[<<user_id, promo_id>>]}
          : promo_id \in DOMAIN p }

\* the query without "AND p.budget > 0"
get_random_promotion_any_budget(p, cp, user_id) ==
    LET rows == { r \in JoinRows(p, cp, user_id) :
                    /\ p[r.promo_id].promoter_user_id # user_id
                    /\ r.cp_promo_id = 0 }
    IN IF rows = {} THEN {0} ELSE { r.promo_id : r \in rows }

\* the query without "p.promoter_user_id != ?"
get_random_promotion_own(p, cp, user_id) ==
    LET rows == { r \in JoinRows(p, cp, user_id) :
                    /\ r.cp_promo_id = 0
                    /\ p[r.promo_id].budget > 0 }
    IN IF rows = {} THEN {0} ELSE { r.promo_id : r \in rows }

\* the query with an inner JOIN ... WHERE cp.promo_id IS NULL: no row ever matches
get_random_promotion_inner_join(p, cp, user_id) ==
    LET rows == { r \in { j \in JoinRows(p, cp, user_id) : j.cp_promo_id # 0 } :
                    /\ p[r.promo_id].promoter_user_id # user_id
                    /\ r.cp_promo_id = 0
                    /\ p[r.promo_id].budget > 0 }
    IN IF rows = {} THEN {0} ELSE { r.promo_id : r \in rows }

\* WHERE p.promoter_user_id != ? AND cp.promo_id IS NULL AND p.budget > 0
\* ORDER BY RANDOM() LIMIT 1; fetchone(): the possible results, 0 for None
get_random_promotion(p, cp, user_id) ==
    LET rows == { r \in JoinRows(p, cp, user_id) :
                    /\ p[r.promo_id].promoter_user_id # user_id
                    /\ r.cp_promo_id = 0
                    /\ p[r.promo_id].budget > 0 }
    IN IF rows = {} THEN {0} ELSE { r.promo_id : r \in rows }

\* the insert into a table without the primary key: every call adds a row
claim_promo_no_key(cp, user_id, promo_id) ==
    [cp EXCEPT ![<<user_id, promo_id>>] = @ + 1]

\* INSERT OR IGNORE INTO claimed_promos (user_id, promo_id) VALUES (?, ?)
\* PRIMARY KEY (user_id, promo_id): a conflicting row is ignored
claim_promo(cp, user_id, promo_id) ==
    IF cp[<<user_id, promo_id>>] > 0 THEN cp
    ELSE [cp EXCEPT ![<<user_id, promo_id>>] = 1]

\* the update without "AND budget > 0"
decrement_promo_budget_unguarded(p, promo_id) ==
    [x \in DOMAIN p |->
        IF x = promo_id THEN [p[x] EXCEPT !.budget = @ - 1] ELSE p[x]]

\* UPDATE promotions SET budget = budget - 1 WHERE promo_id = ? AND budget > 0
decrement_promo_budget(p, promo_id) ==
    [x \in DOMAIN p |->
        IF x = promo_id /\ p[x].budget > 0
        THEN [p[x] EXCEPT !.budget = @ - 1] ELSE p[x]]

\* the lookup with its two parameters swapped
has_claimed_promo_swapped(cp, user_id, promo_id) ==
    /\ <<promo_id, user_id>> \in DOMAIN cp
    /\ cp[<<promo_id, user_id>>] > 0

\* SELECT 1 FROM claimed_promos WHERE user_id = ? AND promo_id = ?; fetchone() is not None
has_claimed_promo(cp, user_id, promo_id) ==
    cp[<<user_id, promo_id>>] > 0

\* UPDATE users SET image_broadcasts_left = image_broadcasts_left - ? WHERE user_id = ?
use_image_broadcast_run(u, user_id, count) ==
    [x \in DOMAIN u |->
        IF x = user_id THEN [u[x] EXCEPT !.image_broadcasts_left = @ - count] ELSE u[x]]

\* sequences without repetition of exactly the elements of S
RECURSIVE Orders(_)
Orders(S) ==
    IF S = {} THEN {<<>>}
    ELSE UNION { { <<x>> \o rest : rest \in Orders(S \ {x}) } : x \in S }

\* SELECT user_id FROM users WHERE user_id != ? AND is_banned = FALSE
\* ORDER BY RANDOM() LIMIT ?: the possible results
get_random_users_for_broadcast(u, exclude_user_id, limit) ==
    LET rows == { x \in DOMAIN u : x # exclude_user_id /\ ~u[x].is_banned }
        n == IF limit < 0 THEN Cardinality(rows) ELSE Min(limit, Cardinality(rows))
    IN UNION { Orders(T) : T \in { T \in SUBSET rows : Cardinality(T) = n } }

\* SELECT user_id FROM users WHERE is_banned = FALSE (rows come in rowid order)
RECURSIVE Ascending(_)
Ascending(S) ==
    IF S = {} THEN <<>>
    ELSE LET x == CHOOSE y \in S : \A z \in S : y <= z
         IN <<x>> \o Ascending(S \ {x})

get_all_user_ids(u) ==
    Ascending({ x \in DOMAIN u : ~u[x].is_banned })

\* UPDATE users SET is_banned = ? WHERE user_id = ?
ban_user(u, user_id, is_banned) ==
    [x \in DOMAIN u |->
        IF x = user_id THEN [u[x] EXCEPT !.is_banned = is_banned] ELSE u[x]]

\* the day the model runs in: premium_expiry is a day number, <<>> for NULL
Today == 0

\* the update that also refills the credits
set_premium_refill(u, user_id, days) ==
    [x \in DOMAIN u |->
        IF x = user_id
        THEN [u[x] EXCEPT !.is_premium = TRUE, !.premium_expiry = <<Today + days>>,
                          !.daily_promo_runs = PremiumPromoRuns,
                          !.image_broadcasts_left = ImageBroadcastCap,
                          !.credits = DefaultCredits]
        ELSE u[x]]

\* expiry_date = datetime.now() + timedelta(days=days)
\* UPDATE users SET is_premium = TRUE, premium_expiry = ?, daily_promo_runs = 5,
\* image_broadcasts_left = 100 WHERE user_id = ?
set_premium(u, user_id, days) ==
    [x \in DOMAIN u |->
        IF x = user_id
        THEN [u[x] EXCEPT !.is_premium = TRUE, !.premium_expiry = <<Today + days>>,
                          !.daily_promo_runs = PremiumPromoRuns,
                          !.image_broadcasts_left = ImageBroadcastCap]
        ELSE u[x]]

\* UPDATE users SET is_premium = FALSE, premium_expiry = NULL, daily_promo_runs = 2
\* WHERE user_id = ?
remove_premium(u, user_id) ==
    [x \in DOMAIN u |->
        IF x = user_id
        THEN [u[x] EXCEPT !.is_premium = FALSE, !.premium_expiry = <<>>,
                          !.daily_promo_runs = DefaultPromoRuns]
        ELSE u[x]]

\* the update without "AND daily_promo_runs > 0"
use_promo_run_unguarded(u, user_id) ==
    [x \in DOMAIN u |->
        IF x = user_id THEN [u[x] EXCEPT !.daily_promo_runs = @ - 1] ELSE u[x]]

\* UPDATE users SET daily_promo_runs = daily_promo_runs - 1
\* WHERE user_id = ? AND daily_promo_runs > 0
use_promo_run(u, user_id) ==
    [x \in DOMAIN u |->
        IF x = user_id /\ u[x].daily_promo_runs > 0
        THEN [u[x] EXCEPT !.daily_promo_runs = @ - 1] ELSE u[x]]

\* INSERT INTO groups (group_id, added_by_user_id, is_admin) VALUES (?, ?, ?)
\* ON CONFLICT(group_id) DO UPDATE SET is_admin = excluded.is_admin
add_group(g, group_id, added_by_user_id, is_admin) ==
    IF group_id \in DOMAIN g
    THEN [g EXCEPT ![group_id].is_admin = is_admin]
    ELSE [x \in DOMAIN g \cup {group_id} |->
            IF x = group_id
            THEN [added_by_user_id |-> added_by_user_id, is_admin |-> is_admin]
            ELSE g[x]]

\* a lookup that finds no group
get_group_none(g, group_id) == <<>>

\* SELECT * FROM groups WHERE group_id = ?  (<<row>>, or <<>> for None)
get_group(g, group_id) ==
    IF group_id \in DOMAIN g THEN <<g[group_id]>> ELSE <<>>

\* the query without "WHERE is_admin = TRUE"
get_random_groups_any(g, limit) ==
    LET rows == DOMAIN g
        n == IF limit < 0 THEN Cardinality(rows) ELSE Min(limit, Cardinality(rows))
    IN UNION { Orders(T) : T \in { T \in SUBSET rows : Cardinality(T) = n } }

\* the query without "LIMIT ?"
get_random_groups_unlimited(g, limit) ==
    Orders({ x \in DOMAIN g : g[x].is_admin })

\* SELECT group_id FROM groups WHERE is_admin = TRUE ORDER BY RANDOM() LIMIT ?:
\* the possible results
get_random_groups(g, limit) ==
    LET rows == { x \in DOMAIN g : g[x].is_admin }
        n == IF limit < 0 THEN Cardinality(rows) ELSE Min(limit, Cardinality(rows))
    IN UNION { Orders(T) : T \in { T \in SUBSET rows : Cardinality(T) = n } }

\* the update without "WHERE is_premium = TRUE"
reset_all_premium_image_broadcasts_everyone(u) ==
    [x \in DOMAIN u |-> [u[x] EXCEPT !.image_broadcasts_left = ImageBroadcastCap]]

\* UPDATE users SET image_broadcasts_left = 100 WHERE is_premium = TRUE
reset_all_premium_image_broadcasts(u) ==
    [x \in DOMAIN u |->
        IF u[x].is_premium
        THEN [u[x] EXCEPT !.image_broadcasts_left = ImageBroadcastCap] ELSE u[x]]

\* the reset that moves the referral balance into the credits and empties it
execute_daily_reset_moving(u) ==
    [x \in DOMAIN u |->
        [u[x] EXCEPT !.credits = @ + u[x].referral_credits,
                     !.referral_credits = 0,
                     !.daily_promo_runs =
                         IF u[x].is_premium THEN PremiumPromoRuns ELSE DefaultPromoRuns]]

\* UPDATE users SET credits = credits + referral_credits; daily_promo_runs = 2 / 5
execute_daily_reset(u) ==
    [x \in DOMAIN u |->
        [u[x] EXCEPT !.credits = @ + u[x].referral_credits,
                     !.daily_promo_runs =
                         IF u[x].is_premium THEN PremiumPromoRuns ELSE DefaultPromoRuns]]

\* the reset as "SET clicks_received = clicks_received / 2"
execute_weekly_reset_halving(u) ==
    [x \in DOMAIN u |-> [u[x] EXCEPT !.clicks_received = @ \div 2]]

\* UPDATE users SET clicks_received = 0
execute_weekly_reset(u) ==
    [x \in DOMAIN u |-> [u[x] EXCEPT !.clicks_received = 0]]

\* INSERT OR IGNORE INTO users (user_id, username, inviter_id) VALUES (?, ?, ?):
\* the other columns take their defaults
add_user(u, user_id) ==
    IF user_id \in DOMAIN u THEN u
    ELSE [x \in DOMAIN u \cup {user_id} |-> IF x = user_id THEN NewUserRow ELSE u[x]]

\* the update as "SET credits = credits + ?"
update_referral_credits_main(u, user_id, amount) ==
    [x \in DOMAIN u |->
        IF x = user_id THEN [u[x] EXCEPT !.credits = @ + amount] ELSE u[x]]

\* UPDATE users SET referral_credits = referral_credits + ? WHERE user_id = ?
update_referral_credits(u, user_id, amount) ==
    [x \in DOMAIN u |->
        IF x = user_id THEN [u[x] EXCEPT !.referral_credits = @ + amount] ELSE u[x]]

\* UPDATE users SET normal_promo_text = ?, normal_promo_url = ?, ... WHERE user_id = ?
set_normal_promo(u, user_id, url) ==
    [x \in DOMAIN u |->
        IF x = user_id THEN [u[x] EXCEPT !.normal_promo_url = url] ELSE u[x]]

\* UPDATE users SET force_join_channel_id = ? WHERE user_id = ?
set_force_join_channel(u, user_id, channel_id) ==
    [x \in DOMAIN u |->
        IF x = user_id THEN [u[x] EXCEPT !.force_join_channel_id = channel_id] ELSE u[x]]

\* flags = ['group_promotion', 'force_join_promotion', 'premium_image_caption']
FlagNames == {"group_promotion", "force_join_promotion", "premium_image_caption"}

\* the empty table feature_flags
NoFlags == [name \in {} |-> TRUE]

\* the seeding as INSERT OR REPLACE: a stored value is overwritten by the default
initialize_database_replace(ff) ==
    [name \in DOMAIN ff \cup FlagNames |-> IF name \in FlagNames THEN TRUE ELSE ff[name]]

\* for flag in flags: INSERT OR IGNORE INTO feature_flags (name) VALUES (?)
\* (is_enabled BOOLEAN DEFAULT TRUE)
initialize_database(ff) ==
    [name \in DOMAIN ff \cup FlagNames |-> IF name \in DOMAIN ff THEN ff[name] ELSE TRUE]

\* SELECT is_enabled FROM feature_flags WHERE name = ?; row[0] if row else False
get_feature_flag(ff, name) ==
    IF name \in DOMAIN ff THEN ff[name] ELSE FALSE

\* UPDATE feature_flags SET is_enabled = ? WHERE name = ?
set_feature_flag(ff, name, is_enabled) ==
    [x \in DOMAIN ff |-> IF x = name THEN is_enabled ELSE ff[x]]

-----------------------------------------------------------------------------
(* Python conversions applied to message texts and callback data *)

Digit(c) ==
    CASE c = "0" -> 0 [] c = "1" -> 1 [] c = "2" -> 2 [] c = "3" -> 3 [] c = "4" -> 4
      [] c = "5" -> 5 [] c = "6" -> 6 [] c = "7" -> 7 [] c = "8" -> 8 [] c = "9" -> 9
      [] OTHER -> -1

\* str.strip() for blanks
RECURSIVE strip(_)
strip(text) ==
    IF text # "" /\ SubSeq(text, 1, 1) = " " THEN strip(SubSeq(text, 2, Len(text)))
    ELSE IF text # "" /\ SubSeq(text, Len(text), Len(text)) = " "
    THEN strip(SubSeq(text, 1, Len(text) - 1))
    ELSE text

\* the value of a digit string read so far, -1 once it is no digit string: at least
\* one digit, an underscore only between two digits
RECURSIVE Digits(_, _, _)
Digits(text, value, after_digit) ==
    IF text = "" THEN (IF after_digit THEN value ELSE -1)
    ELSE LET c == SubSeq(text, 1, 1)
             rest == SubSeq(text, 2, Len(text))
         IN IF Digit(c) >= 0 THEN Digits(rest, 10 * value + Digit(c), TRUE)
            ELSE IF c = "_" /\ after_digit /\ rest # "" /\ Digit(SubSeq(rest, 1, 1)) >= 0
            THEN Digits(rest, value, FALSE)
            ELSE -1

\* int(text): <<value>>, or <<>> where Python raises ValueError
int(text) ==
    LET t == strip(text)
        signed == t # "" /\ SubSeq(t, 1, 1) \in {"+", "-"}
        magnitude == Digits(IF signed THEN SubSeq(t, 2, Len(t)) ELSE t, 0, FALSE)
    IN IF magnitude < 0 THEN <<>>
       ELSE IF signed /\ SubSeq(t, 1, 1) = "-" THEN <<0 - magnitude>>
       ELSE <<magnitude>>

\* text.startswith(prefix)
startswith(text, prefix) ==
    Len(text) >= Len(prefix) /\ SubSeq(text, 1, Len(prefix)) = prefix

\* text.split('_'): the fields between the underscores
RECURSIVE split(_, _)
split(text, field) ==
    IF text = "" THEN <<field>>
    ELSE IF SubSeq(text, 1, 1) = "_"
    THEN <<field>> \o split(SubSeq(text, 2, Len(text)), "")
    ELSE split(SubSeq(text, 2, Len(text)), field \o SubSeq(text, 1, 1))

\* str.replace(old, ''): every occurrence of old, left to right, is removed
RECURSIVE replace(_, _)
replace(text, old) ==
    IF text = "" THEN ""
    ELSE IF startswith(text, old)
    THEN replace(SubSeq(text, Len(old) + 1, Len(text)), old)
    ELSE SubSeq(text, 1, 1) \o replace(SubSeq(text, 2, Len(text)), old)

-----------------------------------------------------------------------------
(* Handler positions *)

IdleProc ==
    [pc |-> "idle", outcome |-> "", user_id |-> 0, promo_id |-> 0, promoter_id |-> 0,
     channel_id |-> 0, reward |-> 0, budget |-> 0, promo_type |-> "", late |-> FALSE,
     cost |-> 0, target_users |-> <<>>, s |-> 0, f |-> 0, limit |-> 0,
     n |-> 0, attempts |-> <<>>, feature_name |-> "", current_status |-> FALSE,
     inviter_id |-> <<>>, promo_url |-> ""]

\* a handler returns: its locals are dropped, the reply it sent to user_id stays visible
Return(s, user_id, outcome, late) ==
    procs' = [procs EXCEPT ![s] = [IdleProc EXCEPT !.user_id = user_id,
                                                   !.outcome = outcome, !.late = late]]

Goto(s, loc) ==
    procs' = [procs EXCEPT ![s] = loc]

NoHist == [inserts |-> 0, decs |-> 0, paid |-> 0, views |-> 0]

\* daily_promo_runs as set_premium, remove_premium and the daily reset set it
RunCapOf(is_premium) == IF is_premium THEN PremiumPromoRuns ELSE DefaultPromoRuns

\* the empty table groups
NoGroups == [g \in {} |-> [added_by_user_id |-> 0, is_admin |-> FALSE]]

\* a period starts: no group fan-out and no image delivery made yet, the image
\* allowance the account holds at that time
NoUsage(row) ==
    [group_shares |-> 0, image_sent |-> 0, image_start |-> row.image_broadcasts_left]

\* the number of days the administrator grants premium for
PremiumDays == 30

\* the accounts 1..n after their first /start, account 1 with one referral
\* (check_user: +2 daily) and account 2 made premium (set_premium); all but
\* account 3 have saved a normal link (set_normal_promo)
Registered(n) ==
    [x \in 1..n |->
        [NewUserRow EXCEPT !.is_premium = (x = 2),
                           !.premium_expiry = IF x = 2 THEN <<Today + PremiumDays>> ELSE <<>>,
                           !.daily_promo_runs =
                               IF x = 2 THEN PremiumPromoRuns ELSE DefaultPromoRuns,
                           !.referral_credits = IF x = 1 THEN ReferralBonus ELSE 0,
                           !.force_join_channel_id = x,
                           !.normal_promo_url = IF x = 3 THEN "" ELSE "url"]]

InitWith(n) ==
    /\ users = Registered(n)
    /\ promotions = <<>>
    /\ claimed_promos = [pr \in Pairs |-> 0]
    /\ tokens = {}
    /\ procs = [s \in Slots |-> IdleProc]
    /\ hist = [pr \in Pairs |-> NoHist]
    /\ created = <<>>
    /\ completed = {}
    /\ groups = NoGroups
    /\ usage = [x \in 1..n |-> NoUsage(Registered(n)[x])]
    /\ feature_flags = initialize_database(NoFlags)
    /\ user_data = [x \in Chats |-> NoData]
    /\ conversations = [x \in Chats |-> END]

Init == InitWith(NumUsers)

InitConc == InitWith(NumConcUsers)

InitScenario == InitWith(NumScenUsers)

InitLedger == InitWith(NumLedgerUsers)

InitFanout == InitWith(NumFanUsers)

InitInput == InitWith(NumInputUsers)

InitData == InitWith(NumDataUsers)

InitReferral == InitWith(NumReferralUsers)

InitPromo == InitWith(NumPromoUsers)

\* one group where the bot is administrator, added by account 1
OneGroup == add_group(NoGroups, 1, 1, TRUE)

\* two groups where the bot is administrator
TwoGroups == add_group(OneGroup, 2, 1, TRUE)

InitLoops ==
    /\ users = Registered(NumFanUsers)
    /\ promotions = <<>>
    /\ claimed_promos = [pr \in Pairs |-> 0]
    /\ tokens = {}
    /\ procs = [s \in Slots |-> IdleProc]
    /\ hist = [pr \in Pairs |-> NoHist]
    /\ created = <<>>
    /\ completed = {}
    /\ groups = TwoGroups
    /\ usage = [x \in 1..NumFanUsers |-> NoUsage(Registered(NumFanUsers)[x])]
    /\ feature_flags = initialize_database(NoFlags)
    /\ user_data = [x \in Chats |-> NoData]
    /\ conversations = [x \in Chats |-> END]

\* account rows as a day of use can leave them
ResetRows ==
    { row \in [credits : {0, DefaultCredits, 2 * DefaultCredits},
               referral_credits : {0, ReferralBonus},
               is_premium : BOOLEAN, is_banned : BOOLEAN,
               daily_promo_runs : 0..PremiumPromoRuns,
               image_broadcasts_left : {0, ImageBroadcastCap},
               force_join_channel_id : {0}, clicks_received : {0, 3},
               normal_promo_url : {"url"},
               premium_expiry : {<<>>, <<Today + PremiumDays>>}] :
         /\ row.daily_promo_runs \in {0, RunCapOf(row.is_premium)}
         /\ row.is_premium <=> row.premium_expiry # <<>>
         /\ row.is_banned => row.clicks_received = 0 }

InitReset ==
    /\ users \in [1..NumResetUsers -> ResetRows]
    /\ promotions = <<>>
    /\ claimed_promos = [pr \in Pairs |-> 0]
    /\ tokens = {}
    /\ procs = [s \in Slots |-> IdleProc]
    /\ hist = [pr \in Pairs |-> NoHist]
    /\ created = <<>>
    /\ completed = {}
    /\ groups = NoGroups
    /\ usage = [x \in 1..NumResetUsers |-> NoUsage(users[x])]
    /\ feature_flags = initialize_database(NoFlags)
    /\ user_data = [x \in Chats |-> NoData]
    /\ conversations = [x \in Chats |-> END]

\* an administrator and a premium account, one group to share to
InitFlags ==
    /\ users = Registered(NumFlagUsers)
    /\ promotions = <<>>
    /\ claimed_promos = [pr \in Pairs |-> 0]
    /\ tokens = {}
    /\ procs = [s \in Slots |-> IdleProc]
    /\ hist = [pr \in Pairs |-> NoHist]
    /\ created = <<>>
    /\ completed = {}
    /\ groups = OneGroup
    /\ usage = [x \in 1..NumFlagUsers |-> NoUsage(Registered(NumFlagUsers)[x])]
    /\ feature_flags = initialize_database(NoFlags)
    /\ user_data = [x \in Chats |-> NoData]
    /\ conversations = [x \in Chats |-> END]

\* account rows in the middle of a week: views received, and an image allowance
\* that is used up or partly used
FrameRows ==
    { row \in [credits : {0, DefaultCredits}, referral_credits : {0, ReferralBonus},
               is_premium : BOOLEAN, is_banned : BOOLEAN,
               daily_promo_runs : 0..PremiumPromoRuns,
               image_broadcasts_left : {0, ImagesLeft},
               force_join_channel_id : {0}, clicks_received : {1, FrameViews},
               normal_promo_url : {"", "url"},
               premium_expiry : {<<>>, <<Today + PremiumDays>>}] :
         /\ row.daily_promo_runs \in {0, RunCapOf(row.is_premium)}
         /\ row.is_premium <=> row.premium_expiry # <<>> }

InitFrame ==
    /\ users \in [1..NumFrameUsers -> FrameRows]
    /\ promotions = <<>>
    /\ claimed_promos = [pr \in Pairs |-> 0]
    /\ tokens = {}
    /\ procs = [s \in Slots |-> IdleProc]
    /\ hist = [pr \in Pairs |-> NoHist]
    /\ created = <<>>
    /\ completed = {}
    /\ groups = OneGroup
    /\ usage = [x \in 1..NumFrameUsers |-> NoUsage(users[x])]
    /\ feature_flags = initialize_database(NoFlags)
    /\ user_data = [x \in Chats |-> NoData]
    /\ conversations = [x \in Chats |-> END]

InitShareConc ==
    /\ users = Registered(NumQuotaUsers)
    /\ promotions = <<>>
    /\ claimed_promos = [pr \in Pairs |-> 0]
    /\ tokens = {}
    /\ procs = [s \in Slots |-> IdleProc]
    /\ hist = [pr \in Pairs |-> NoHist]
    /\ created = <<>>
    /\ completed = {}
    /\ groups = OneGroup
    /\ usage = [x \in 1..NumQuotaUsers |-> NoUsage(Registered(NumQuotaUsers)[x])]
    /\ feature_flags = initialize_database(NoFlags)
    /\ user_data = [x \in Chats |-> NoData]
    /\ conversations = [x \in Chats |-> END]

\* the same accounts later in the day: the premium account has used its image
\* allowance down to ImagesLeft
InitImageConc ==
    /\ users = [x \in 1..NumQuotaUsers |->
                  IF Registered(NumQuotaUsers)[x].is_premium
                  THEN [Registered(NumQuotaUsers)[x] EXCEPT
                          !.image_broadcasts_left = ImagesLeft]
                  ELSE Registered(NumQuotaUsers)[x]]
    /\ promotions = <<>>
    /\ claimed_promos = [pr \in Pairs |-> 0]
    /\ tokens = {}
    /\ procs = [s \in Slots |-> IdleProc]
    /\ hist = [pr \in Pairs |-> NoHist]
    /\ created = <<>>
    /\ completed = {}
    /\ groups = NoGroups
    /\ usage = [x \in 1..NumQuotaUsers |->
                  [group_shares |-> 0,
                   image_sent |-> ImageBroadcastCap - users[x].image_broadcasts_left,
                   image_start |-> ImageBroadcastCap]]
    /\ feature_flags = initialize_database(NoFlags)
    /\ user_data = [x \in Chats |-> NoData]
    /\ conversations = [x \in Chats |-> END]

-----------------------------------------------------------------------------
(* handlers.py tasks: pick a task and send its claim button *)

Token(loc) ==
    [user_id |-> loc.user_id,
     kind |-> IF loc.promo_type = "normal" THEN "claim" ELSE "verify",
     promo_id |-> loc.promo_id, channel_id |-> loc.channel_id,
     promoter_id |-> loc.promoter_id]

\* promo = await db.get_random_promotion(user_id); if not promo: "No new tasks available"
TasksQuery(s, user_id) ==
    /\ procs[s].pc = "idle"
    /\ \E promo \in get_random_promotion(promotions, claimed_promos, user_id) :
          IF promo = 0
          THEN Return(s, user_id, "no_tasks", FALSE)
          ELSE Goto(s, [IdleProc EXCEPT
                          !.pc = "tasks_send", !.user_id = user_id, !.promo_id = promo,
                          !.promoter_id = promotions[promo].promoter_user_id,
                          !.promo_type = promotions[promo].promo_type,
                          !.channel_id = promotions[promo].channel_id])
    /\ UNCHANGED <<users, promotions, claimed_promos, tokens, hist, created, completed, groups, usage, feature_flags,
                   user_data, conversations>>

\* the task message with callback_data claim_<promo>_<promoter> or
\* verify_<promo>_<channel>_<promoter>; a TelegramError sends no button
TasksSend(s) ==
    /\ procs[s].pc = "tasks_send"
    /\ \E sent \in BOOLEAN :
          IF sent
          THEN /\ tokens' = tokens \cup {Token(procs[s])}
               /\ Return(s, procs[s].user_id, "task_sent", FALSE)
          ELSE /\ tokens' = tokens
               /\ Return(s, procs[s].user_id, "task_error", FALSE)
    /\ UNCHANGED <<users, promotions, claimed_promos, hist, created, completed, groups, usage, feature_flags,
                   user_data, conversations>>

-----------------------------------------------------------------------------
(* handlers.py handle_claim_promo *)

Bump(h, pair, field) ==
    [h EXCEPT ![pair] = [@ EXCEPT ![field] = @ + 1]]

PairOf(loc) == <<loc.user_id, loc.promo_id>>

\* if await db.has_claimed_promo(user_id, promo_id): answer(...); return
ClaimStart(s, tok) ==
    /\ procs[s].pc = "idle"
    /\ LET late == <<tok.user_id, tok.promo_id>> \in completed IN
       IF has_claimed_promo(claimed_promos, tok.user_id, tok.promo_id)
       THEN Return(s, tok.user_id, "already_completed", late)
       ELSE Goto(s, [IdleProc EXCEPT
                       !.pc = "claim_insert", !.user_id = tok.user_id,
                       !.promo_id = tok.promo_id, !.promoter_id = tok.promoter_id,
                       !.late = late])
    /\ UNCHANGED <<users, promotions, claimed_promos, tokens, hist, created, completed, groups, usage, feature_flags,
                   user_data, conversations>>

\* the claim button pressed is one the bot has sent
ClaimCheck(s, tok) ==
    /\ tok \in tokens /\ tok.kind = "claim"
    /\ ClaimStart(s, tok)

\* await db.claim_promo(user_id, promo_id)
ClaimInsert(s) ==
    /\ procs[s].pc = "claim_insert"
    /\ claimed_promos' = claim_promo(claimed_promos, procs[s].user_id, procs[s].promo_id)
    /\ hist' = Bump(hist, PairOf(procs[s]), "inserts")
    /\ Goto(s, [procs[s] EXCEPT !.pc = "claim_decrement"])
    /\ UNCHANGED <<users, promotions, tokens, created, completed, groups, usage, feature_flags,
                   user_data, conversations>>

\* await db.decrement_promo_budget(promo_id)
ClaimDecrement(s) ==
    /\ procs[s].pc = "claim_decrement"
    /\ promotions' = decrement_promo_budget(promotions, procs[s].promo_id)
    /\ hist' = Bump(hist, PairOf(procs[s]), "decs")
    /\ Goto(s, [procs[s] EXCEPT !.pc = "claim_get_user"])
    /\ UNCHANGED <<users, claimed_promos, tokens, created, completed, groups, usage, feature_flags,
                   user_data, conversations>>

\* db_user = await db.get_user(user_id); reward = 2 if db_user and db_user['is_premium'] else 1
ClaimGetUser(s) ==
    /\ procs[s].pc = "claim_get_user"
    /\ LET db_user == get_user(users, procs[s].user_id)
           reward == IF db_user # <<>> /\ db_user[1].is_premium
                     THEN NormalRewardPremium ELSE NormalReward
       IN Goto(s, [procs[s] EXCEPT !.pc = "claim_credit", !.reward = reward])
    /\ UNCHANGED <<users, promotions, claimed_promos, tokens, hist, created, completed, groups, usage, feature_flags,
                   user_data, conversations>>

\* await db.update_user_credits(user_id, reward)
ClaimCredit(s) ==
    /\ procs[s].pc = "claim_credit"
    /\ users' = update_user_credits(users, procs[s].user_id, procs[s].reward)
    /\ hist' = Bump(hist, PairOf(procs[s]), "paid")
    /\ Goto(s, [procs[s] EXCEPT !.pc = "claim_views"])
    /\ UNCHANGED <<promotions, claimed_promos, tokens, created, completed, groups, usage, feature_flags,
                   user_data, conversations>>

\* await db.increment_clicks_received(promoter_id); "Success! You've earned ..."
ClaimViews(s) ==
    /\ procs[s].pc = "claim_views"
    /\ users' = increment_clicks_received(users, procs[s].promoter_id)
    /\ hist' = Bump(hist, PairOf(procs[s]), "views")
    /\ completed' = completed \cup {PairOf(procs[s])}
    /\ Return(s, procs[s].user_id, "success", procs[s].late)
    /\ UNCHANGED <<promotions, claimed_promos, tokens, created, groups, usage, feature_flags,
                   user_data, conversations>>

handle_claim_promo(s) ==
    \/ \E tok \in tokens : ClaimCheck(s, tok)
    \/ ClaimInsert(s)
    \/ ClaimDecrement(s)
    \/ ClaimGetUser(s)
    \/ ClaimCredit(s)
    \/ ClaimViews(s)

-----------------------------------------------------------------------------
(* handlers.py handle_verify_promo *)

MemberStatuses == {"member", "administrator", "creator", "left", "TelegramError"}

\* if await db.has_claimed_promo(user_id, promo_id): answer(...); return
VerifyStart(s, tok) ==
    /\ procs[s].pc = "idle"
    /\ LET late == <<tok.user_id, tok.promo_id>> \in completed IN
       IF has_claimed_promo(claimed_promos, tok.user_id, tok.promo_id)
       THEN Return(s, tok.user_id, "already_completed", late)
       ELSE Goto(s, [IdleProc EXCEPT
                       !.pc = "verify_member", !.user_id = tok.user_id,
                       !.promo_id = tok.promo_id, !.promoter_id = tok.promoter_id,
                       !.channel_id = tok.channel_id, !.late = late])
    /\ UNCHANGED <<users, promotions, claimed_promos, tokens, hist, created, completed, groups, usage, feature_flags,
                   user_data, conversations>>

\* the verify button pressed is one the bot has sent
VerifyCheck(s, tok) ==
    /\ tok \in tokens /\ tok.kind = "verify"
    /\ VerifyStart(s, tok)

\* a lookup that takes every answer of the transport for a membership
VerifyMemberWith_lenient(s, status) ==
    /\ procs[s].pc = "verify_member"
    /\ IF status = "TelegramError"
       THEN Return(s, procs[s].user_id, "verify_error", procs[s].late)
       ELSE Goto(s, [procs[s] EXCEPT !.pc = "verify_insert"])
    /\ UNCHANGED <<users, promotions, claimed_promos, tokens, hist, created, completed, groups, usage, feature_flags,
                   user_data, conversations>>

\* member = await context.bot.get_chat_member(...); member.status in [...]
\* else: "You haven't joined the channel yet."; except TelegramError: "Error..."
VerifyMemberWith(s, status) ==
    /\ procs[s].pc = "verify_member"
    /\ IF status = "TelegramError"
       THEN Return(s, procs[s].user_id, "verify_error", procs[s].late)
       ELSE IF status \in {"member", "administrator", "creator"}
       THEN Goto(s, [procs[s] EXCEPT !.pc = "verify_insert"])
       ELSE Return(s, procs[s].user_id, "not_joined", procs[s].late)
    /\ UNCHANGED <<users, promotions, claimed_promos, tokens, hist, created, completed, groups, usage, feature_flags,
                   user_data, conversations>>

VerifyMember(s) == \E status \in MemberStatuses : VerifyMemberWith(s, status)

\* await db.claim_promo(user_id, promo_id)
VerifyInsert(s) ==
    /\ procs[s].pc = "verify_insert"
    /\ claimed_promos' = claim_promo(claimed_promos, procs[s].user_id, procs[s].promo_id)
    /\ hist' = Bump(hist, PairOf(procs[s]), "inserts")
    /\ Goto(s, [procs[s] EXCEPT !.pc = "verify_decrement"])
    /\ UNCHANGED <<users, promotions, tokens, created, completed, groups, usage, feature_flags,
                   user_data, conversations>>

\* await db.decrement_promo_budget(promo_id)
VerifyDecrement(s) ==
    /\ procs[s].pc = "verify_decrement"
    /\ promotions' = decrement_promo_budget(promotions, procs[s].promo_id)
    /\ hist' = Bump(hist, PairOf(procs[s]), "decs")
    /\ Goto(s, [procs[s] EXCEPT !.pc = "verify_get_user"])
    /\ UNCHANGED <<users, claimed_promos, tokens, created, completed, groups, usage, feature_flags,
                   user_data, conversations>>

\* db_user = await db.get_user(user_id); reward = 4 if db_user and db_user['is_premium'] else 2
VerifyGetUser(s) ==
    /\ procs[s].pc = "verify_get_user"
    /\ LET db_user == get_user(users, procs[s].user_id)
           reward == IF db_user # <<>> /\ db_user[1].is_premium
                     THEN ForceJoinRewardPremium ELSE ForceJoinReward
       IN Goto(s, [procs[s] EXCEPT !.pc = "verify_credit", !.reward = reward])
    /\ UNCHANGED <<users, promotions, claimed_promos, tokens, hist, created, completed, groups, usage, feature_flags,
                   user_data, conversations>>

\* await db.update_user_credits(user_id, reward)
VerifyCredit(s) ==
    /\ procs[s].pc = "verify_credit"
    /\ users' = update_user_credits(users, procs[s].user_id, procs[s].reward)
    /\ hist' = Bump(hist, PairOf(procs[s]), "paid")
    /\ Goto(s, [procs[s] EXCEPT !.pc = "verify_views"])
    /\ UNCHANGED <<promotions, claimed_promos, tokens, created, completed, groups, usage, feature_flags,
                   user_data, conversations>>

\* await db.increment_clicks_received(promoter_id); "Verified! You've earned ..."
VerifyViews(s) ==
    /\ procs[s].pc = "verify_views"
    /\ users' = increment_clicks_received(users, procs[s].promoter_id)
    /\ hist' = Bump(hist, PairOf(procs[s]), "views")
    /\ completed' = completed \cup {PairOf(procs[s])}
    /\ Return(s, procs[s].user_id, "success", procs[s].late)
    /\ UNCHANGED <<promotions, claimed_promos, tokens, created, groups, usage, feature_flags,
                   user_data, conversations>>

handle_verify_promo(s) ==
    \/ \E tok \in tokens : VerifyCheck(s, tok)
    \/ VerifyMember(s)
    \/ VerifyInsert(s)
    \/ VerifyDecrement(s)
    \/ VerifyGetUser(s)
    \/ VerifyCredit(s)
    \/ VerifyViews(s)

-----------------------------------------------------------------------------
(* handlers.py button_handler: the callback data as the client sends it.  The data *)
(* of a callback query need not be the data of a button the bot has sent.          *)

\* an exception leaves the handler: nothing is sent to the user, the application
\* logs it (main.py registers no error handler)
Raise(s, user_id, error) ==
    /\ Return(s, user_id, error, FALSE)
    /\ UNCHANGED <<users, promotions, claimed_promos, tokens, hist, created, completed,
                   groups, usage, feature_flags,
                   user_data, conversations>>

\* _, promo_id_str, promoter_id_str = data.split('_')
\* promo_id, promoter_id = int(promo_id_str), int(promoter_id_str)
ClaimData(s, user_id, data) ==
    LET fields == split(data, "") IN
    IF Len(fields) # 3 \/ int(fields[2]) = <<>> \/ int(fields[3]) = <<>>
    THEN procs[s].pc = "idle" /\ Raise(s, user_id, "ValueError")
    ELSE ClaimStart(s, [user_id |-> user_id, kind |-> "claim",
                        promo_id |-> int(fields[2])[1], channel_id |-> 0,
                        promoter_id |-> int(fields[3])[1]])

\* _, promo_id_str, channel_id_str, promoter_id_str = data.split('_')
\* promo_id, channel_id, promoter_id = int(...), int(...), int(...)
VerifyData(s, user_id, data) ==
    LET fields == split(data, "") IN
    IF \/ Len(fields) # 4
       \/ int(fields[2]) = <<>> \/ int(fields[3]) = <<>> \/ int(fields[4]) = <<>>
    THEN procs[s].pc = "idle" /\ Raise(s, user_id, "ValueError")
    ELSE VerifyStart(s, [user_id |-> user_id, kind |-> "verify",
                         promo_id |-> int(fields[2])[1],
                         channel_id |-> int(fields[3])[1],
                         promoter_id |-> int(fields[4])[1]])

\* _, promoter_id = data.split('_'); context.user_data['promoter_to_report'] = promoter_id
\* "Please forward the message you want to report."
handle_report_start(s, user_id, data) ==
    /\ procs[s].pc = "idle"
    /\ IF Len(split(data, "")) # 2
       THEN Raise(s, user_id, "ValueError")
       ELSE /\ user_data' = [user_data EXCEPT ![user_id] =
                                 SetData(@, "promoter_to_report", split(data, "")[2])]
            /\ Return(s, user_id, "forward_the_message", FALSE)
            /\ UNCHANGED <<users, promotions, claimed_promos, tokens, hist, created,
                           completed, groups, usage, feature_flags, conversations>>

\* the callback data a client sends: the three kinds of task button, well formed
\* and not
DataTexts ==
    {"claim_2_1", "verify_2_2_1",
     "claim_1", "claim_a_1", "claim_1_1_1", "verify_1_b_1",
     "report_1", "report_1_2", "report_x"}

\* if not await check_user(update, context): return
\* elif data.startswith('claim_'): ... elif 'verify_': ... elif 'report_': ...
ButtonData(s, user_id, data) ==
    IF users[user_id].is_banned
    THEN /\ procs[s].pc = "idle"
         /\ Return(s, user_id, "banned", FALSE)
         /\ UNCHANGED <<users, promotions, claimed_promos, tokens, hist, created,
                        completed, groups, usage, feature_flags,
                   user_data, conversations>>
    ELSE IF startswith(data, "claim_") THEN ClaimData(s, user_id, data)
    ELSE IF startswith(data, "verify_") THEN VerifyData(s, user_id, data)
    ELSE IF startswith(data, "report_") THEN handle_report_start(s, user_id, data)
    ELSE FALSE

-----------------------------------------------------------------------------
(* handlers.py start and check_user: /start in a private chat, with the arguments *)
(* of a referral link.  inviter_id is <<id>>, or <<>> for None.                   *)

\* the kinds of chat /start arrives in
ChatTypes == {"private", "group"}

\* a check that takes the inviter from the arguments of every /start, whether the
\* sender is in the store or not
StartCheck_existing(s, user_id, args, chat_type) ==
    /\ procs[s].pc = "idle"
    /\ LET db_user == get_user(users, user_id) IN
       IF db_user # <<>> /\ db_user[1].is_banned
       THEN Return(s, user_id, "banned", FALSE)
       ELSE LET inviter_id == IF args = <<>> \/ chat_type # "private"
                              THEN <<>> ELSE int(args[1]) IN
            Goto(s, [IdleProc EXCEPT
                       !.pc = IF inviter_id # <<>> /\ inviter_id[1] # user_id
                              THEN "start_grant" ELSE "start_add",
                       !.user_id = user_id, !.inviter_id = inviter_id])
    /\ UNCHANGED <<users, promotions, claimed_promos, tokens, hist, created, completed,
                   groups, usage, feature_flags,
                   user_data, conversations>>

\* db_user = await db.get_user(user.id); banned: "You are banned"; known: the menu
\* if not db_user: if context.args and update.effective_chat.type == ChatType.PRIVATE:
\*                     inviter_id = int(context.args[0])
\*                     if inviter_id != user.id: ...
\* except (ValueError, IndexError, TelegramError): pass
StartCheck(s, user_id, args, chat_type) ==
    /\ procs[s].pc = "idle"
    /\ LET db_user == get_user(users, user_id) IN
       IF db_user # <<>> /\ db_user[1].is_banned
       THEN Return(s, user_id, "banned", FALSE)
       ELSE IF db_user # <<>> THEN Return(s, user_id, "main_menu", FALSE)
       ELSE LET inviter_id == IF args = <<>> \/ chat_type # "private"
                              THEN <<>> ELSE int(args[1]) IN
            Goto(s, [IdleProc EXCEPT
                       !.pc = IF inviter_id # <<>> /\ inviter_id[1] # user_id
                              THEN "start_grant" ELSE "start_add",
                       !.user_id = user_id, !.inviter_id = inviter_id])
    /\ UNCHANGED <<users, promotions, claimed_promos, tokens, hist, created, completed,
                   groups, usage, feature_flags,
                   user_data, conversations>>

\* await db.update_referral_credits(inviter_id, 2)
StartGrant(s) ==
    /\ procs[s].pc = "start_grant"
    /\ users' = update_referral_credits(users, procs[s].inviter_id[1], ReferralBonus)
    /\ Goto(s, [procs[s] EXCEPT !.pc = "start_notify"])
    /\ UNCHANGED <<promotions, claimed_promos, tokens, hist, created, completed,
                   groups, usage, feature_flags,
                   user_data, conversations>>

\* await context.bot.send_message(chat_id=inviter_id, ...): delivered, or a
\* TelegramError that is passed over
StartNotify(s) ==
    /\ procs[s].pc = "start_notify"
    /\ \E delivered \in BOOLEAN :
          Goto(s, [procs[s] EXCEPT !.pc = "start_add",
                                   !.s = IF delivered THEN 1 ELSE 0,
                                   !.f = IF delivered THEN 0 ELSE 1])
    /\ UNCHANGED <<users, promotions, claimed_promos, tokens, hist, created, completed,
                   groups, usage, feature_flags,
                   user_data, conversations>>

\* await db.add_user(user.id, user.username, inviter_id); the main menu
StartAdd(s) ==
    /\ procs[s].pc = "start_add"
    /\ users' = add_user(users, procs[s].user_id)
    /\ usage' = [x \in DOMAIN users' |->
                    IF x \in DOMAIN usage THEN usage[x] ELSE NoUsage(users'[x])]
    /\ Return(s, procs[s].user_id, "main_menu", FALSE)
    /\ UNCHANGED <<promotions, claimed_promos, tokens, hist, created, completed,
                   groups, feature_flags,
                   user_data, conversations>>

\* the accounts that send /start and the arguments they send: no argument, an
\* existing account, an account that never registers, the sender itself, no number
StartIds == 1..MaxReferralUsers
StartArgs == {<<>>, <<"1">>, <<"2">>, <<"9">>, <<"3">>, <<"ref">>}

start(s) ==
    \/ \E user_id \in StartIds, args \in StartArgs, chat_type \in ChatTypes :
          StartCheck(s, user_id, args, chat_type)
    \/ StartGrant(s)
    \/ StartNotify(s)
    \/ StartAdd(s)

-----------------------------------------------------------------------------
(* handlers.py button_handler, toggle_flag_: an administrator switches a feature *)
(* flag.  main.py post_init: the store is initialized again at every start.      *)

\* config.ADMIN_IDS
ADMIN_IDS == {1}

\* the toggle data a client sends: the three buttons of feature_flags_keyboard, a
\* name that is no flag, the bare prefix, the prefix twice
ToggleTexts ==
    {"toggle_flag_group_promotion", "toggle_flag_force_join_promotion",
     "toggle_flag_premium_image_caption", "toggle_flag_dark_mode", "toggle_flag_",
     "toggle_flag_toggle_flag_group_promotion"}

\* if not await check_user(update, context): return
\* if user_id not in config.ADMIN_IDS: return
\* feature_name = data.replace('toggle_flag_', '')
ToggleCheck(s, user_id, data) ==
    /\ procs[s].pc = "idle"
    /\ startswith(data, "toggle_flag_")
    /\ IF users[user_id].is_banned THEN Return(s, user_id, "banned", FALSE)
       ELSE IF user_id \notin ADMIN_IDS THEN Return(s, user_id, "no_reply", FALSE)
       ELSE Goto(s, [IdleProc EXCEPT !.pc = "toggle_get", !.user_id = user_id,
                                     !.feature_name = replace(data, "toggle_flag_")])
    /\ UNCHANGED <<users, promotions, claimed_promos, tokens, hist, created, completed,
                   groups, usage, feature_flags,
                   user_data, conversations>>

\* current_status = await db.get_feature_flag(feature_name)
ToggleGet(s) ==
    /\ procs[s].pc = "toggle_get"
    /\ Goto(s, [procs[s] EXCEPT
                  !.pc = "toggle_set",
                  !.current_status = get_feature_flag(feature_flags, procs[s].feature_name)])
    /\ UNCHANGED <<users, promotions, claimed_promos, tokens, hist, created, completed,
                   groups, usage, feature_flags,
                   user_data, conversations>>

\* await db.set_feature_flag(feature_name, not current_status)
\* await admin_feature_flags(update, context, is_edit=True)
ToggleSet(s) ==
    /\ procs[s].pc = "toggle_set"
    /\ feature_flags' = set_feature_flag(feature_flags, procs[s].feature_name,
                                         ~procs[s].current_status)
    /\ Return(s, procs[s].user_id, "feature_flags", FALSE)
    /\ UNCHANGED <<users, promotions, claimed_promos, tokens, hist, created, completed,
                   groups, usage, user_data, conversations>>

toggle_flag(s) ==
    \/ \E user_id \in DOMAIN users, data \in ToggleTexts : ToggleCheck(s, user_id, data)
    \/ ToggleGet(s)
    \/ ToggleSet(s)

\* await db.initialize_database(), before polling starts: no handler is running
post_init ==
    /\ \A s \in Slots : procs[s].pc = "idle"
    /\ feature_flags' = initialize_database(feature_flags)
    /\ UNCHANGED <<users, promotions, claimed_promos, tokens, procs, hist, created,
                   completed, groups, usage, user_data, conversations>>

-----------------------------------------------------------------------------
(* handlers.py get_promotion_budget: fund a promotion *)

\* the numbers a user may send as the budget: 0, small budgets, one above the balance
BudgetInputs(user_id, max_budget) ==
    (0..max_budget) \cup {users[user_id].credits + 1}

Funding == { s \in Slots : procs[s].pc \in {"fund_add", "fund_debit"} }

\* budget = int(message.text); user = await db.get_user(user_id)
\* if not (0 < budget <= user['credits']): "Invalid amount"; return AWAIT_BUDGET
FundCheck(s, user_id, budget, promo_type, max_promos) ==
    /\ procs[s].pc = "idle"
    /\ Len(promotions) + Cardinality(Funding) < max_promos
    /\ LET user == get_user(users, user_id)[1] IN
       IF ~(0 < budget /\ budget <= user.credits)
       THEN Return(s, user_id, "invalid_amount", FALSE)
       ELSE Goto(s, [IdleProc EXCEPT
                       !.pc = "fund_add", !.user_id = user_id, !.budget = budget,
                       !.promo_type = promo_type,
                       !.channel_id = user.force_join_channel_id,
                       !.promo_url = user.normal_promo_url])
    /\ UNCHANGED <<users, promotions, claimed_promos, tokens, hist, created, completed, groups, usage, feature_flags,
                   user_data, conversations>>

\* await db.add_promotion(user_id, 'normal', budget, ...) or
\* await db.add_promotion(user_id, 'force_join', budget, channel_id=...)
FundAdd(s) ==
    /\ procs[s].pc = "fund_add"
    /\ LET loc == procs[s]
           channel_id == IF loc.promo_type = "normal" THEN 0 ELSE loc.channel_id
           url == IF loc.promo_type = "normal" THEN loc.promo_url ELSE ""
       IN /\ promotions' = add_promotion(promotions, loc.user_id, loc.promo_type,
                                         loc.budget, channel_id, url)
          /\ created' = Append(created, [promoter_user_id |-> loc.user_id,
                                         promo_type |-> loc.promo_type,
                                         budget |-> loc.budget,
                                         channel_id |-> channel_id,
                                         promo_url |-> url])
    /\ Goto(s, [procs[s] EXCEPT !.pc = "fund_debit"])
    /\ UNCHANGED <<users, claimed_promos, tokens, hist, completed, groups, usage, feature_flags,
                   user_data, conversations>>

\* await db.update_user_credits(user_id, -budget); "Promotion created!"
\* context.user_data.clear(); await start(update, context); return ConversationHandler.END
FundDebit(s) ==
    /\ procs[s].pc = "fund_debit"
    /\ users' = update_user_credits(users, procs[s].user_id, -procs[s].budget)
    /\ user_data' = [user_data EXCEPT ![procs[s].user_id] = NoData]
    /\ conversations' = [conversations EXCEPT ![procs[s].user_id] = END]
    /\ Return(s, procs[s].user_id, "promotion_created", FALSE)
    /\ UNCHANGED <<promotions, claimed_promos, tokens, hist, created, completed, groups, usage,
                   feature_flags>>

get_promotion_budget(s, max_promos, max_budget) ==
    \/ \E user_id \in DOMAIN users, promo_type \in PromoTypes :
          \E budget \in BudgetInputs(user_id, max_budget) :
             FundCheck(s, user_id, budget, promo_type, max_promos)
    \/ FundAdd(s)
    \/ FundDebit(s)

tasks(s) ==
    \/ \E user_id \in DOMAIN users : TasksQuery(s, user_id)
    \/ TasksSend(s)

-----------------------------------------------------------------------------
(* handlers.py get_broadcast_count: premium image broadcast and its payment *)

\* the numbers a user may send as the count: none, one, eleven, one above the cap
CountInputs == {0, 1, 11, ImageBroadcastCap + 1}

\* math.ceil(count / 10)
Cost(count) == (count + 9) \div 10

\* count = int(message.text); user = await db.get_user(user_id); the three checks;
\* target_users = await db.get_random_users_for_broadcast(user_id, count)
\* (the flow is entered through premium_broadcast_start, which asks for is_premium)
BroadcastCheck(s, user_id, count) ==
    /\ procs[s].pc = "idle"
    /\ users[user_id].is_premium
    /\ LET user == get_user(users, user_id)[1]
           cost == Cost(count)
       IN IF count <= 0 THEN Return(s, user_id, "must_be_positive", FALSE)
          ELSE IF count > user.image_broadcasts_left
          THEN Return(s, user_id, "over_allowance", FALSE)
          ELSE IF cost > user.credits
          THEN Return(s, user_id, "insufficient_funds", FALSE)
          ELSE \E target_users \in get_random_users_for_broadcast(users, user_id, count) :
                  Goto(s, [IdleProc EXCEPT
                             !.pc = "broadcast_send", !.user_id = user_id,
                             !.cost = cost, !.target_users = target_users,
                             !.n = Len(target_users)])
    /\ UNCHANGED <<users, promotions, claimed_promos, tokens, hist, created, completed, groups, usage, feature_flags,
                   user_data, conversations>>

\* a loop that stops at the first TelegramError
Attempt_abort(loc, delivered) ==
    [loc EXCEPT !.target_users = IF delivered THEN Tail(@) ELSE <<>>,
                !.s = IF delivered THEN @ + 1 ELSE @,
                !.f = IF delivered THEN @ ELSE @ + 1,
                !.attempts = Append(@, [target |-> Head(loc.target_users),
                                        delivered |-> delivered])]

\* a loop that sends again to a target after a TelegramError
Attempt_retry(loc, delivered) ==
    [loc EXCEPT !.target_users = IF delivered THEN Tail(@) ELSE @,
                !.s = IF delivered THEN @ + 1 ELSE @,
                !.f = IF delivered THEN @ ELSE @ + 1,
                !.attempts = Append(@, [target |-> Head(loc.target_users),
                                        delivered |-> delivered])]

\* one pass of "for target in targets: try: send; s += 1 / except TelegramError: f += 1":
\* the loop moves to the next target either way (attempts: the sends made so far)
Attempt(loc, delivered) ==
    [loc EXCEPT !.target_users = Tail(@),
                !.s = IF delivered THEN @ + 1 ELSE @,
                !.f = IF delivered THEN @ ELSE @ + 1,
                !.attempts = Append(@, [target |-> Head(loc.target_users),
                                        delivered |-> delivered])]

\* for target_id in target_users: copy_message; s += 1, or f += 1 on TelegramError
BroadcastSend(s) ==
    /\ procs[s].pc = "broadcast_send"
    /\ procs[s].target_users # <<>>
    /\ \E delivered \in BOOLEAN :
          /\ Goto(s, Attempt(procs[s], delivered))
          /\ usage' = IF delivered
                      THEN [usage EXCEPT ![procs[s].user_id].image_sent = @ + 1]
                      ELSE usage
    /\ UNCHANGED <<users, promotions, claimed_promos, tokens, hist, created, completed, groups, feature_flags,
                   user_data, conversations>>

\* await db.use_image_broadcast_run(user_id, s)
BroadcastUse(s) ==
    /\ procs[s].pc = "broadcast_send"
    /\ procs[s].target_users = <<>>
    /\ users' = use_image_broadcast_run(users, procs[s].user_id, procs[s].s)
    /\ Goto(s, [procs[s] EXCEPT !.pc = "broadcast_debit"])
    /\ UNCHANGED <<promotions, claimed_promos, tokens, hist, created, completed, groups, usage, feature_flags,
                   user_data, conversations>>

\* await db.update_user_credits(user_id, -cost); "Broadcast complete!"
\* context.user_data.clear()
BroadcastDebit(s) ==
    /\ procs[s].pc = "broadcast_debit"
    /\ users' = update_user_credits(users, procs[s].user_id, -procs[s].cost)
    /\ user_data' = [user_data EXCEPT ![procs[s].user_id] = NoData]
    /\ Return(s, procs[s].user_id, "broadcast_complete", FALSE)
    /\ UNCHANGED <<promotions, claimed_promos, tokens, hist, created, completed, groups, usage,
                   feature_flags, conversations>>

get_broadcast_count(s) ==
    \/ \E user_id \in DOMAIN users, count \in CountInputs : BroadcastCheck(s, user_id, count)
    \/ BroadcastSend(s)
    \/ BroadcastUse(s)
    \/ BroadcastDebit(s)

-----------------------------------------------------------------------------
(* handlers.py: the conversation steps as they receive the message text.  The     *)
(* value a step returns is the state its conversation is in afterwards; main.py   *)
(* dispatches get_link_url in LINK_URL, get_promotion_budget in AWAIT_BUDGET and  *)
(* get_broadcast_count in AWAIT_BROADCAST_COUNT.                                  *)

\* the return statement that follows each reply of the three steps
Returned(outcome) ==
    CASE outcome \in {"send_valid_budget", "invalid_amount"} -> AWAIT_BUDGET
      [] outcome = "invalid_url" -> LINK_URL
      [] outcome \in {"send_valid_count", "must_be_positive", "over_allowance",
                      "insufficient_funds"} -> AWAIT_BROADCAST_COUNT
      [] outcome \in {"promotion_created", "promotion_saved", "broadcast_complete"} -> END

\* the texts an account sends as the budget
BudgetTexts == {"abc", "", "2.5", "0", "-1", " 2", "+4", "99"}

\* try: budget = int(message.text) / except ValueError: "Please send a valid number."
BudgetMessage(s, user_id, text, promo_type, max_promos) ==
    IF int(text) = <<>>
    THEN /\ procs[s].pc = "idle"
         /\ Return(s, user_id, "send_valid_budget", FALSE)
         /\ UNCHANGED <<users, promotions, claimed_promos, tokens, hist, created,
                        completed, groups, usage, feature_flags,
                   user_data, conversations>>
    ELSE FundCheck(s, user_id, int(text)[1], promo_type, max_promos)

\* the texts an account sends as the count
CountTexts == {"abc", "0", "-3", "1_1", "101"}

\* try: count = int(message.text) / except ValueError: "Send a valid number."
CountMessage(s, user_id, text) ==
    IF int(text) = <<>>
    THEN /\ procs[s].pc = "idle"
         /\ users[user_id].is_premium
         /\ Return(s, user_id, "send_valid_count", FALSE)
         /\ UNCHANGED <<users, promotions, claimed_promos, tokens, hist, created,
                        completed, groups, usage, feature_flags,
                   user_data, conversations>>
    ELSE BroadcastCheck(s, user_id, int(text)[1])

\* the texts an account sends as the URL
UrlTexts == {"http://a", "https://a", "ftp://a", "a.b", "http:/a", "", "HTTP://a"}

\* a step that saves the template before it looks at the URL
get_link_url_saving(s, user_id, url) ==
    /\ procs[s].pc = "idle"
    /\ users' = set_normal_promo(users, user_id, url)
    /\ IF ~(startswith(url, "http://") \/ startswith(url, "https://"))
       THEN user_data' = user_data /\ Return(s, user_id, "invalid_url", FALSE)
       ELSE /\ user_data' = [user_data EXCEPT ![user_id] = NoData]
            /\ Return(s, user_id, "promotion_saved", FALSE)
    /\ UNCHANGED <<promotions, claimed_promos, tokens, hist, created, completed,
                   groups, usage, feature_flags, conversations>>

\* a step that also rewrites the promotions the account has already created
get_link_url_propagating(s, user_id, url) ==
    /\ procs[s].pc = "idle"
    /\ IF ~(startswith(url, "http://") \/ startswith(url, "https://"))
       THEN /\ users' = users
            /\ promotions' = promotions
            /\ user_data' = user_data
            /\ Return(s, user_id, "invalid_url", FALSE)
       ELSE /\ users' = set_normal_promo(users, user_id, url)
            /\ promotions' =
                  [P \in DOMAIN promotions |->
                      IF promotions[P].promoter_user_id = user_id
                         /\ promotions[P].promo_type = "normal"
                      THEN [promotions[P] EXCEPT !.promo_url = url] ELSE promotions[P]]
            /\ user_data' = [user_data EXCEPT ![user_id] = NoData]
            /\ Return(s, user_id, "promotion_saved", FALSE)
    /\ UNCHANGED <<claimed_promos, tokens, hist, created, completed,
                   groups, usage, feature_flags, conversations>>

\* if not (url.startswith('http://') or url.startswith('https://')): "Invalid URL"
\* await db.set_normal_promo(...); context.user_data.clear(); "Normal promotion saved!"
get_link_url(s, user_id, url) ==
    /\ procs[s].pc = "idle"
    /\ IF ~(startswith(url, "http://") \/ startswith(url, "https://"))
       THEN /\ users' = users
            /\ user_data' = user_data
            /\ Return(s, user_id, "invalid_url", FALSE)
       ELSE /\ users' = set_normal_promo(users, user_id, url)
            /\ user_data' = [user_data EXCEPT ![user_id] = NoData]
            /\ Return(s, user_id, "promotion_saved", FALSE)
    /\ UNCHANGED <<promotions, claimed_promos, tokens, hist, created, completed,
                   groups, usage, feature_flags, conversations>>

\* the channels an account names as its force-join channel
ChannelInputs == 1..NumChannels

\* bot_member = await context.bot.get_chat_member(channel_input, context.bot.id)
\* if bot_member.status != 'administrator': "I'm not an admin there"
\* await db.set_force_join_channel(user_id, chat.id); "Force-join channel set"
\* except TelegramError: "Could not access channel"
get_channel_id(s, user_id, channel_input) ==
    /\ procs[s].pc = "idle"
    /\ \E reply \in {"not_admin", "channel_set", "could_not_access"} :
          /\ users' = IF reply = "channel_set"
                      THEN set_force_join_channel(users, user_id, channel_input)
                      ELSE users
          /\ Return(s, user_id, reply, FALSE)
    /\ UNCHANGED <<promotions, claimed_promos, tokens, hist, created, completed,
                   groups, usage, feature_flags,
                   user_data, conversations>>

-----------------------------------------------------------------------------
(* handlers.py execute_group_share: send the saved normal link to random groups. *)
(* The locals groups, s_count, f_count are kept in target_users, s, f.           *)

\* button_handler: check_user turns a banned account away; then
\* user = await db.get_user(user_id)
\* if not user or user['daily_promo_runs'] <= 0 or not user['normal_promo_url']: return
\* limit = 10 if user['is_premium'] else 5
ShareCheck(s, user_id) ==
    /\ procs[s].pc = "idle"
    /\ LET user == get_user(users, user_id)[1] IN
       IF user.is_banned THEN Return(s, user_id, "banned", FALSE)
       ELSE IF user.daily_promo_runs <= 0 \/ user.normal_promo_url = ""
       THEN Return(s, user_id, "something_went_wrong", FALSE)
       ELSE Goto(s, [IdleProc EXCEPT
                       !.pc = "share_query", !.user_id = user_id,
                       !.limit = IF user.is_premium THEN GroupLimitPremium
                                 ELSE GroupLimit])
    /\ UNCHANGED <<users, promotions, claimed_promos, tokens, hist, created, completed,
                   groups, usage, feature_flags,
                   user_data, conversations>>

\* groups = await db.get_random_groups(limit); if not groups: "No available groups"
ShareQuery(s) ==
    /\ procs[s].pc = "share_query"
    /\ \E target_groups \in get_random_groups(groups, procs[s].limit) :
          IF target_groups = <<>>
          THEN /\ Return(s, procs[s].user_id, "no_groups", FALSE)
               /\ usage' = usage
          ELSE /\ Goto(s, [procs[s] EXCEPT !.pc = "share_send",
                                           !.target_users = target_groups,
                                           !.n = Len(target_groups)])
               /\ usage' = [usage EXCEPT ![procs[s].user_id].group_shares = @ + 1]
    /\ UNCHANGED <<users, promotions, claimed_promos, tokens, hist, created, completed,
                   groups, feature_flags,
                   user_data, conversations>>

\* for group_id in groups: copy_message / send_message; s_count += 1,
\* or f_count += 1 on TelegramError
ShareSend(s) ==
    /\ procs[s].pc = "share_send"
    /\ procs[s].target_users # <<>>
    /\ \E delivered \in BOOLEAN : Goto(s, Attempt(procs[s], delivered))
    /\ UNCHANGED <<users, promotions, claimed_promos, tokens, hist, created, completed,
                   groups, usage, feature_flags,
                   user_data, conversations>>

\* await db.use_promo_run(user_id)
ShareUse(s) ==
    /\ procs[s].pc = "share_send"
    /\ procs[s].target_users = <<>>
    /\ users' = use_promo_run(users, procs[s].user_id)
    /\ Goto(s, [procs[s] EXCEPT !.pc = "share_report"])
    /\ UNCHANGED <<promotions, claimed_promos, tokens, hist, created, completed,
                   groups, usage, feature_flags,
                   user_data, conversations>>

\* updated_user = await db.get_user(user_id); "Promotion Sent!" with s_count, f_count
ShareReport(s) ==
    /\ procs[s].pc = "share_report"
    /\ Return(s, procs[s].user_id, "promotion_sent", FALSE)
    /\ UNCHANGED <<users, promotions, claimed_promos, tokens, hist, created, completed,
                   groups, usage, feature_flags,
                   user_data, conversations>>

execute_group_share(s) ==
    \/ \E user_id \in DOMAIN users : ShareCheck(s, user_id)
    \/ ShareQuery(s)
    \/ ShareSend(s)
    \/ ShareUse(s)
    \/ ShareReport(s)

-----------------------------------------------------------------------------
(* handlers.py get_broadcast_message: the administrator's broadcast to all accounts *)

\* user_ids = await db.get_all_user_ids(); "Broadcasting to ... users"
AdminQuery(s, admin_id) ==
    /\ procs[s].pc = "idle"
    /\ LET user_ids == get_all_user_ids(users) IN
       Goto(s, [IdleProc EXCEPT !.pc = "admin_send", !.user_id = admin_id,
                                !.target_users = user_ids, !.n = Len(user_ids)])
    /\ UNCHANGED <<users, promotions, claimed_promos, tokens, hist, created, completed,
                   groups, usage, feature_flags,
                   user_data, conversations>>

\* for user_id in user_ids: copy_message; s += 1, or f += 1 on TelegramError
\* (the failures that say "blocked" or "deactivated" are only counted for the report)
AdminSend(s) ==
    /\ procs[s].pc = "admin_send"
    /\ procs[s].target_users # <<>>
    /\ \E delivered \in BOOLEAN : Goto(s, Attempt(procs[s], delivered))
    /\ UNCHANGED <<users, promotions, claimed_promos, tokens, hist, created, completed,
                   groups, usage, feature_flags,
                   user_data, conversations>>

\* "Broadcast Complete" with s, f, b
AdminReport(s) ==
    /\ procs[s].pc = "admin_send"
    /\ procs[s].target_users = <<>>
    /\ Return(s, procs[s].user_id, "broadcast_report", FALSE)
    /\ UNCHANGED <<users, promotions, claimed_promos, tokens, hist, created, completed,
                   groups, usage, feature_flags,
                   user_data, conversations>>

get_broadcast_message(s) ==
    \/ \E admin_id \in ADMIN_IDS \cap DOMAIN users : AdminQuery(s, admin_id)
    \/ AdminSend(s)
    \/ AdminReport(s)

-----------------------------------------------------------------------------
(* main.py create_promotion_handler and the handlers registered after it.  An     *)
(* update goes to the conversation when the state the account is in has a handler *)
(* or a fallback for it, and to handle_report_forward or button_handler if not.   *)

\* the states of create_promotion_handler in which the flow is under way
FlowStates == {AWAIT_PROMO_TYPE_FOR_CREATION, AWAIT_BUDGET}

\* a step of the flow that changes neither a table nor the scratch data
FlowReply(s, user_id, outcome, state) ==
    /\ procs[s].pc = "idle"
    /\ conversations' = [conversations EXCEPT ![user_id] = state]
    /\ Return(s, user_id, outcome, FALSE)
    /\ UNCHANGED <<users, promotions, claimed_promos, tokens, hist, created, completed,
                   groups, usage, feature_flags, user_data>>

\* entry point, pattern '^create_promotion$': a button per saved link or channel
\* if not buttons: "Set up a promotion link/channel first!"; return END
create_promotion_start(s, user_id) ==
    /\ conversations[user_id] = END
    /\ LET user == get_user(users, user_id)[1] IN
       IF user.normal_promo_url = "" /\ user.force_join_channel_id = 0
       THEN FlowReply(s, user_id, "set_up_first", END)
       ELSE FlowReply(s, user_id, "which_promotion", AWAIT_PROMO_TYPE_FOR_CREATION)

\* the callback data of the two buttons create_promotion_start sends
TypeTexts == {"create_promo_normal", "create_promo_force_join"}

\* promo_type = data.replace('create_promo_', '')
\* context.user_data['promo_type_to_create'] = promo_type; return AWAIT_BUDGET
get_promotion_type_for_creation(s, user_id, data) ==
    /\ procs[s].pc = "idle"
    /\ conversations[user_id] = AWAIT_PROMO_TYPE_FOR_CREATION
    /\ user_data' = [user_data EXCEPT ![user_id] =
                        SetData(@, "promo_type_to_create", replace(data, "create_promo_"))]
    /\ conversations' = [conversations EXCEPT ![user_id] = AWAIT_BUDGET]
    /\ Return(s, user_id, "how_many_credits", FALSE)
    /\ UNCHANGED <<users, promotions, claimed_promos, tokens, hist, created, completed,
                   groups, usage, feature_flags>>

\* the texts an account sends as the budget in SpecFlow
FlowBudgetTexts == {"abc", "1", "99"}

\* state AWAIT_BUDGET, a text message: get_promotion_budget.  After the number and
\* the balance are checked: promo_type = context.user_data['promo_type_to_create']
BudgetStep(s, user_id, text, max_promos) ==
    /\ conversations[user_id] = AWAIT_BUDGET
    /\ LET data == user_data[user_id]
           stored == "promo_type_to_create" \in DOMAIN data
           valid == /\ int(text) # <<>>
                    /\ 0 < int(text)[1]
                    /\ int(text)[1] <= get_user(users, user_id)[1].credits
       IN IF valid /\ ~stored
          THEN procs[s].pc = "idle" /\ Raise(s, user_id, "KeyError")
          ELSE BudgetMessage(s, user_id, text,
                             IF stored /\ data["promo_type_to_create"] # "normal"
                             THEN "force_join" ELSE "normal",
                             max_promos)

\* fallback CommandHandler('cancel'): "Operation cancelled."
\* context.user_data.clear(); await start(update, context); return END
cancel_conversation(s, user_id) ==
    /\ procs[s].pc = "idle"
    /\ conversations[user_id] \in FlowStates
    /\ user_data' = [user_data EXCEPT ![user_id] = NoData]
    /\ conversations' = [conversations EXCEPT ![user_id] = END]
    /\ Return(s, user_id, "cancelled", FALSE)
    /\ UNCHANGED <<users, promotions, claimed_promos, tokens, hist, created, completed,
                   groups, usage, feature_flags>>

\* fallback CallbackQueryHandler(handlers.start, pattern='^back_to_main$'): start
\* sends the menu and returns None, and the conversation keeps the state it is in
BackToMain(s, user_id) ==
    /\ conversations[user_id] \in FlowStates
    /\ FlowReply(s, user_id, "menu", conversations[user_id])

\* MessageHandler(filters.FORWARDED, ...): a forwarded message that is not a text,
\* or any forwarded message while the account is not in AWAIT_BUDGET
\* if not context.user_data.get('promoter_to_report'): return
\* (the report goes to the admins); context.user_data.clear(); await start(...)
handle_report_forward(s, user_id) ==
    /\ procs[s].pc = "idle"
    /\ LET data == user_data[user_id] IN
       IF "promoter_to_report" \notin DOMAIN data \/ data["promoter_to_report"] = ""
       THEN /\ user_data' = user_data
            /\ Return(s, user_id, "no_reply", FALSE)
       ELSE /\ user_data' = [user_data EXCEPT ![user_id] = NoData]
            /\ Return(s, user_id, "report_sent", FALSE)
    /\ UNCHANGED <<users, promotions, claimed_promos, tokens, hist, created, completed,
                   groups, usage, feature_flags, conversations>>

\* the callback data of the report button under a task
ReportTexts == {"report_1"}

-----------------------------------------------------------------------------
(* handlers.py: the administrator's single-step conversations *)

\* days = int(update.message.text); user_id = context.user_data['target_user_id']
\* await db.set_premium(user_id, days); "User ... is now premium for ... days."
\* context.user_data.clear()
PremiumDaysMessage(s, admin_id, user_id, days) ==
    /\ procs[s].pc = "idle"
    /\ users' = set_premium(users, user_id, days)
    /\ usage' = [usage EXCEPT ![user_id] = NoUsage(users'[user_id])]
    /\ user_data' = [user_data EXCEPT ![admin_id] = NoData]
    /\ Return(s, admin_id, "premium_set", FALSE)
    /\ UNCHANGED <<promotions, claimed_promos, tokens, hist, created, completed, groups,
                   feature_flags, conversations>>

get_premium_days(s) ==
    \E admin_id \in ADMIN_IDS \cap DOMAIN users, user_id \in DOMAIN users :
       PremiumDaysMessage(s, admin_id, user_id, PremiumDays)

\* user_id = int(update.message.text); await db.remove_premium(user_id)
\* "Premium removed from user ..."
RemovePremiumMessage(s, admin_id, user_id) ==
    /\ procs[s].pc = "idle"
    /\ users' = remove_premium(users, user_id)
    /\ usage' = [usage EXCEPT ![user_id].group_shares = 0]
    /\ Return(s, admin_id, "premium_removed", FALSE)
    /\ UNCHANGED <<promotions, claimed_promos, tokens, hist, created, completed, groups, feature_flags,
                   user_data, conversations>>

get_user_id_for_remove_premium(s) ==
    \E admin_id \in ADMIN_IDS \cap DOMAIN users, user_id \in DOMAIN users :
       RemovePremiumMessage(s, admin_id, user_id)

\* the account ids the administrator sends to the ban and unban conversations
BanInputs == {3}

\* user_id = int(update.message.text); await db.ban_user(user_id, True or False)
\* "User ... has been banned." or "... unbanned."
BanMessage(s, admin_id, user_id, is_banned) ==
    /\ procs[s].pc = "idle"
    /\ users' = ban_user(users, user_id, is_banned)
    /\ Return(s, admin_id, IF is_banned THEN "banned_user" ELSE "unbanned_user", FALSE)
    /\ UNCHANGED <<promotions, claimed_promos, tokens, hist, created, completed,
                   groups, usage, feature_flags, user_data, conversations>>

get_user_id_for_ban(s) ==
    \E admin_id \in ADMIN_IDS \cap DOMAIN users, user_id \in BanInputs \cap DOMAIN users :
       BanMessage(s, admin_id, user_id, TRUE)

get_user_id_for_unban(s) ==
    \E admin_id \in ADMIN_IDS \cap DOMAIN users, user_id \in BanInputs \cap DOMAIN users :
       BanMessage(s, admin_id, user_id, FALSE)

-----------------------------------------------------------------------------
(* handlers.py new_group_member: the bot is added to a group (the transport calls *)
(* of this handler are taken to succeed)                                          *)

GroupIds == 1..NumGroups

\* the member counts the transport may report: at the reward threshold, one above
MemberCounts == {GroupRewardMembers, GroupRewardMembers + 1}

\* the accounts that add the bot to a group
Adders == {1}

\* one membership event: the bot is added to group_id by adder_user_id, and
\* get_chat_member reports is_admin, get_chat_member_count reports member_count
GroupEvent(s, group_id, adder_user_id, is_admin, member_count) ==
    /\ procs[s].pc = "idle"
    /\ LET existing_group == get_group(groups, group_id) IN
       IF existing_group # <<>>
       THEN /\ groups' = IF is_admin /\ ~existing_group[1].is_admin
                         THEN add_group(groups, group_id, adder_user_id, is_admin)
                         ELSE groups
            /\ users' = users
            /\ Return(s, adder_user_id, "group_known", FALSE)
       ELSE /\ groups' = add_group(groups, group_id, adder_user_id, is_admin)
            /\ IF is_admin /\ member_count > GroupRewardMembers
               THEN LET user == get_user(users, adder_user_id)[1]
                        reward == IF user.is_premium THEN GroupRewardPremium
                                  ELSE GroupReward
                    IN users' = update_user_credits(users, adder_user_id, reward)
               ELSE users' = users
            /\ Return(s, adder_user_id, "group_added", FALSE)
    /\ UNCHANGED <<promotions, claimed_promos, tokens, hist, created, completed, usage, feature_flags,
                   user_data, conversations>>

new_group_member(s) ==
    \E group_id \in GroupIds, adder_user_id \in Adders \cap DOMAIN users,
       is_admin \in BOOLEAN, member_count \in MemberCounts :
       GroupEvent(s, group_id, adder_user_id, is_admin, member_count)

-----------------------------------------------------------------------------
(* jobs.py reset_image_broadcasts, run by the job queue *)

reset_image_broadcasts ==
    /\ users' = reset_all_premium_image_broadcasts(users)
    /\ usage' = [x \in DOMAIN usage |->
                    IF users[x].is_premium
                    THEN [usage[x] EXCEPT !.image_sent = 0,
                                          !.image_start = users'[x].image_broadcasts_left]
                    ELSE usage[x]]
    /\ UNCHANGED <<promotions, claimed_promos, tokens, procs, hist, created, completed,
                   groups, feature_flags,
                   user_data, conversations>>

-----------------------------------------------------------------------------
(* jobs.py daily_credit_reset, run by the job queue *)

DailyReset(max_credits) ==
    /\ \A x \in DOMAIN users : users[x].credits + users[x].referral_credits <= max_credits
    /\ users' = execute_daily_reset(users)
    /\ usage' = [x \in DOMAIN usage |-> [usage[x] EXCEPT !.group_shares = 0]]
    /\ UNCHANGED <<promotions, claimed_promos, tokens, procs, hist, created, completed, groups, feature_flags,
                   user_data, conversations>>

daily_credit_reset == DailyReset(MaxCredits)

-----------------------------------------------------------------------------
(* jobs.py weekly_leaderboard_reset, run by the job queue *)

weekly_leaderboard_reset ==
    /\ users' = execute_weekly_reset(users)
    /\ UNCHANGED <<promotions, claimed_promos, tokens, procs, hist, created, completed,
                   groups, usage, feature_flags,
                   user_data, conversations>>

-----------------------------------------------------------------------------
(* Specifications *)

Handler(s, max_promos, max_budget) ==
    \/ tasks(s)
    \/ handle_claim_promo(s)
    \/ handle_verify_promo(s)
    \/ get_promotion_budget(s, max_promos, max_budget)

\* updates are processed one at a time: a single handler slot
Next ==
    \/ Handler(1, MaxPromos, MaxBudget)
    \/ daily_credit_reset

Spec == Init /\ [][Next]_vars

\* handlers of several updates interleave at their awaited calls
NextConc ==
    \/ \E s \in Slots : Handler(s, MaxConcPromos, MaxConcBudget)
    \/ daily_credit_reset

SpecConc == InitConc /\ [][NextConc]_vars

\* one funder and several workers, one handler at a time, no scheduled job in between
NextScenario == Handler(1, MaxScenPromos, MaxScenBudget)

SpecScenario == InitScenario /\ [][NextScenario]_vars

\* everything that moves credits, interleaved at the awaited calls: the two
\* handlers that debit run on every slot, the claim that credits on the first
NextLedger ==
    \/ \E s \in Slots : get_promotion_budget(s, MaxLedgerPromos, MaxLedgerBudget)
    \/ \E s \in Slots : get_broadcast_count(s)
    \/ tasks(1)
    \/ handle_claim_promo(1)
    \/ daily_credit_reset

SpecLedger == InitLedger /\ [][NextLedger]_vars

\* the same, one handler at a time
NextLedgerSeq ==
    \/ Handler(1, MaxLedgerPromos, MaxLedgerBudget)
    \/ get_broadcast_count(1)
    \/ daily_credit_reset

SpecLedgerSeq == InitLedger /\ [][NextLedgerSeq]_vars

\* the three fan-outs and what changes their targets, one handler at a time
FanHandler(s) ==
    \/ get_broadcast_count(s)
    \/ execute_group_share(s)
    \/ get_broadcast_message(s)
    \/ new_group_member(s)
    \/ get_user_id_for_ban(s)
    \/ get_user_id_for_unban(s)

NextFanout == FanHandler(1)

SpecFanout == InitFanout /\ [][NextFanout]_vars

\* the three fan-outs alone, over a fixed population
NextLoops ==
    \/ get_broadcast_count(1)
    \/ execute_group_share(1)
    \/ get_broadcast_message(1)

\* a handler that is running takes its next step: every awaited call returns or raises
SpecLoopsFair == InitLoops /\ [][NextLoops]_vars /\ WF_vars(NextLoops)

\* group shares interleaved at their awaited calls, with what sets the run counter
NextShareConc ==
    \/ \E s \in Slots : execute_group_share(s)
    \/ \E s \in Slots : get_premium_days(s)
    \/ \E s \in Slots : get_user_id_for_remove_premium(s)
    \/ daily_credit_reset

SpecShareConc == InitShareConc /\ [][NextShareConc]_vars

\* image broadcasts interleaved at their awaited calls, with the job that resets
\* the allowance
NextImageConc ==
    \/ \E s \in Slots : get_broadcast_count(s)
    \/ reset_image_broadcasts

SpecImageConc == InitImageConc /\ [][NextImageConc]_vars

\* the daily job applied to arbitrary account rows
NextReset == DailyReset(MaxResetCredits)

SpecReset == InitReset /\ [][NextReset]_vars

\* the task handlers with the callback data a client may send, one handler at a time
NextData ==
    \/ Handler(1, MaxDataPromos, MaxDataBudget)
    \/ \E user_id \in DOMAIN users, data \in DataTexts : ButtonData(1, user_id, data)

SpecData == InitData /\ [][NextData]_vars

\* the three conversation steps that validate a text, one handler at a time
NextInput ==
    \/ \E user_id \in DOMAIN users, text \in BudgetTexts, promo_type \in PromoTypes :
          BudgetMessage(1, user_id, text, promo_type, MaxInputPromos)
    \/ FundAdd(1)
    \/ FundDebit(1)
    \/ \E user_id \in DOMAIN users, url \in UrlTexts : get_link_url(1, user_id, url)
    \/ \E user_id \in DOMAIN users, text \in CountTexts : CountMessage(1, user_id, text)
    \/ BroadcastSend(1)
    \/ BroadcastUse(1)
    \/ BroadcastDebit(1)

SpecInput == InitInput /\ [][NextInput]_vars

\* the accounts that share to groups in SpecFlags
FlagSharers == {1}

\* the flag switch, a restart, and the behaviours the flags are named after, one
\* handler at a time
NextFlags ==
    \/ toggle_flag(1)
    \/ post_init
    \/ \E user_id \in FlagSharers : ShareCheck(1, user_id)
    \/ ShareQuery(1)
    \/ ShareSend(1)
    \/ ShareUse(1)
    \/ ShareReport(1)
    \/ get_promotion_budget(1, MaxFlagPromos, MaxFlagBudget)
    \/ tasks(1)
    \/ handle_verify_promo(1)
    \/ \E user_id \in DOMAIN users : BroadcastCheck(1, user_id, FlagCount)
    \/ BroadcastSend(1)
    \/ BroadcastUse(1)
    \/ BroadcastDebit(1)

SpecFlags == InitFlags /\ [][NextFlags]_vars

\* the numbers of days the administrator sends in SpecPremium
DaysInputs == {ShortPremiumDays, PremiumDays}

\* the two premium conversations applied to arbitrary account rows
NextPremium ==
    \/ \E admin_id \in ADMIN_IDS \cap DOMAIN users, user_id \in DOMAIN users,
          days \in DaysInputs : PremiumDaysMessage(1, admin_id, user_id, days)
    \/ get_user_id_for_remove_premium(1)

SpecPremium == InitReset /\ [][NextPremium]_vars

\* registrations through referral links and the job that pays the bonus out
NextReferral ==
    \/ start(1)
    \/ DailyReset(MaxReferralCredits)

SpecReferral == InitReferral /\ [][NextReferral]_vars

\* the weekly job and the image job alone, over accounts in the middle of a week
NextFrame ==
    \/ weekly_leaderboard_reset
    \/ reset_image_broadcasts

SpecFrame == InitFrame /\ [][NextFrame]_vars

\* the link an account saves as its template in SpecPromo
PromoUrls == {"http://a"}

\* promotions are created and claimed while their owners replace the saved link
\* and the saved channel, one handler at a time
NextPromo ==
    \/ Handler(1, MaxPromoPromos, MaxPromoBudget)
    \/ \E user_id \in DOMAIN users, url \in PromoUrls : get_link_url(1, user_id, url)
    \/ \E user_id \in DOMAIN users, channel_input \in ChannelInputs :
          get_channel_id(1, user_id, channel_input)

SpecPromo == InitPromo /\ [][NextPromo]_vars

InitBan == InitWith(NumBanUsers)

\* the callback data the accounts of SpecBan send to button_handler
BanTexts == {"claim_1_1", "verify_1_1_1"}

\* the administrator bans and unbans either account while both press buttons: task
\* buttons, the flag switch, and the buttons and the budget message of the
\* create-promotion flow; one handler at a time
NextBan ==
    \/ \E admin_id \in ADMIN_IDS, user_id \in DOMAIN users, is_banned \in BOOLEAN :
          BanMessage(1, admin_id, user_id, is_banned)
    \/ \E user_id \in DOMAIN users, data \in BanTexts : ButtonData(1, user_id, data)
    \/ ClaimInsert(1)
    \/ ClaimDecrement(1)
    \/ ClaimGetUser(1)
    \/ ClaimCredit(1)
    \/ ClaimViews(1)
    \/ VerifyMember(1)
    \/ VerifyInsert(1)
    \/ VerifyDecrement(1)
    \/ VerifyGetUser(1)
    \/ VerifyCredit(1)
    \/ VerifyViews(1)
    \/ \E user_id \in DOMAIN users : ToggleCheck(1, user_id, "toggle_flag_group_promotion")
    \/ ToggleGet(1)
    \/ ToggleSet(1)
    \/ \E user_id \in DOMAIN users : create_promotion_start(1, user_id)
    \/ \E user_id \in DOMAIN users :
          get_promotion_type_for_creation(1, user_id, "create_promo_normal")
    \/ \E user_id \in DOMAIN users : BudgetStep(1, user_id, "1", MaxBanPromos)
    \/ FundAdd(1)
    \/ FundDebit(1)

SpecBan == InitBan /\ [][NextBan]_vars

InitGroups == InitWith(NumGroupUsers)

\* membership events alone: either account adds the bot to either group, again and
\* again, with every admin status and member count the transport may report
NextGroups ==
    \E group_id \in GroupIds, adder_user_id \in DOMAIN users, is_admin \in BOOLEAN,
       member_count \in MemberCounts :
       GroupEvent(1, group_id, adder_user_id, is_admin, member_count)

SpecGroups == InitGroups /\ [][NextGroups]_vars

InitFlow == InitWith(NumFlowUsers)

\* the create-promotion flow of each account, with the report buttons, forwarded
\* messages and menu buttons that may arrive while it is under way, one handler at
\* a time
NextFlow ==
    \/ \E user_id \in DOMAIN users : create_promotion_start(1, user_id)
    \/ \E user_id \in DOMAIN users, data \in TypeTexts :
          get_promotion_type_for_creation(1, user_id, data)
    \/ \E user_id \in DOMAIN users, text \in FlowBudgetTexts :
          BudgetStep(1, user_id, text, MaxFlowPromos)
    \/ FundAdd(1)
    \/ FundDebit(1)
    \/ \E user_id \in DOMAIN users : cancel_conversation(1, user_id)
    \/ \E user_id \in DOMAIN users : BackToMain(1, user_id)
    \/ \E user_id \in DOMAIN users, data \in ReportTexts : ButtonData(1, user_id, data)
    \/ \E user_id \in DOMAIN users : handle_report_forward(1, user_id)

SpecFlow == InitFlow /\ [][NextFlow]_vars

\* the three scheduled jobs, in any order and any number of times
NextJobs ==
    \/ DailyReset(MaxResetCredits)
    \/ weekly_leaderboard_reset
    \/ reset_image_broadcasts

SpecJobs == InitReset /\ [][NextJobs]_vars

-----------------------------------------------------------------------------
(* Properties *)

\* slot s takes the step of tasks that runs get_random_promotion
Picks(s) == procs[s].pc = "idle" /\ procs'[s].pc = "tasks_send"

\* rewards paid out for promotion p, and decrement_promo_budget calls made for it
Payouts(p) == SumOver(DOMAIN users, [x \in DOMAIN users |-> hist[<<x, p>>].paid])
Decrements(p) == SumOver(DOMAIN users, [x \in DOMAIN users |-> hist[<<x, p>>].decs])

\* C1: a claim or verify attempt by A on P that starts after a claim/verify of A on P
\* ran to completion changes no balance, budget, claim row or views counter.
C1_LaterAttemptChangesNothing ==
    [][\A s \in Slots :
          (procs'[s] # procs[s] /\ procs'[s].late) =>
             /\ users' = users
             /\ promotions' = promotions
             /\ claimed_promos' = claimed_promos]_vars

C1_Witness ==
    \E s \in Slots :
       /\ procs[s].late
       /\ procs[s].outcome = "already_completed"
       /\ \E p \in DOMAIN promotions : <<procs[s].user_id, p>> \in completed

\* C2: per (account, promotion) the reward is credited, the budget decremented and
\* the promoter's views counter incremented at most once, also when two completions
\* of the same claim interleave.
C2_AtMostOnePayoutPerClaim ==
    \A pr \in Pairs :
       /\ hist[pr].paid <= 1
       /\ hist[pr].decs <= 1
       /\ hist[pr].views <= 1

\* C3: the number of rewards paid out for a promotion never exceeds its initial budget.
C3_PayoutsWithinBudget ==
    \A p \in DOMAIN promotions : Payouts(p) <= created[p].budget

\* C4: every account's credit balance is >= 0 in every reachable state, whatever
\* the interleaving of promotion funding, image-broadcast payment, claims and resets.
C4_CreditsNonNegative ==
    \A A \in DOMAIN users : users[A].credits >= 0

\* C5: after N claims have decremented a promotion of initial budget B, its budget is
\* B - min(N, B), and it is never negative.
C5_BudgetAfterClaims ==
    \A p \in DOMAIN promotions :
       /\ promotions[p].budget = created[p].budget - Min(Decrements(p), created[p].budget)
       /\ promotions[p].budget >= 0

C5_Witness ==
    \E p \in DOMAIN promotions :
       /\ Decrements(p) > created[p].budget
       /\ promotions[p].budget = 0

\* C6: no step raises a promotion's budget or removes a promotion, a budget of 0
\* stays 0, and tasks never picks a promotion whose budget is 0.
C6_BudgetNeverRises ==
    [][/\ \A p \in DOMAIN promotions :
             /\ p \in DOMAIN promotions'
             /\ promotions'[p].budget <= promotions[p].budget
             /\ promotions[p].budget = 0 => promotions'[p].budget = 0
       /\ \A s \in Slots :
             Picks(s) => promotions[procs'[s].promo_id].budget # 0]_vars

C6_Witness ==
    \E s \in Slots, p \in DOMAIN promotions :
       /\ procs[s].outcome = "no_tasks"
       /\ promotions[p].budget = 0
       /\ promotions[p].promoter_user_id # procs[s].user_id
       /\ claimed_promos[<<procs[s].user_id, p>>] = 0

\* C7: the promotion tasks picks for account A is not owned by A, has no claim row
\* (A, P) and has a budget above 0 at the time of the call.
C7_PickExcludesOwnClaimedSpent ==
    [][\A s \in Slots :
          Picks(s) =>
             LET A == procs'[s].user_id
                 P == procs'[s].promo_id
             IN /\ P \in DOMAIN promotions
                /\ promotions[P].promoter_user_id # A
                /\ claimed_promos[<<A, P>>] = 0
                /\ promotions[P].budget > 0]_vars

C7_Witness ==
    \E s \in Slots :
       /\ procs[s].pc = "tasks_send"
       /\ \E q \in DOMAIN promotions :
             /\ promotions[q].budget > 0
             /\ \/ promotions[q].promoter_user_id = procs[s].user_id
                \/ claimed_promos[<<procs[s].user_id, q>>] > 0

\* the promotions the selection rule allows for account A
Eligible(A) ==
    { P \in DOMAIN promotions :
         /\ promotions[P].budget > 0
         /\ promotions[P].promoter_user_id # A
         /\ claimed_promos[<<A, P>>] = 0 }

TaskPicked(s, A, P) == TasksQuery(s, A) /\ procs'[s].pc = "tasks_send" /\ procs'[s].promo_id = P
TaskNone(s, A) == TasksQuery(s, A) /\ procs'[s].pc = "idle"

\* C8: tasks finds no promotion exactly when the eligible set is empty; otherwise
\* exactly the eligible promotions are its possible results.
C8_PickIsAnyEligible ==
    \A s \in Slots, A \in DOMAIN users :
       procs[s].pc = "idle" =>
          /\ (ENABLED TaskNone(s, A)) <=> (Eligible(A) = {})
          /\ \A P \in PromoIds : (ENABLED TaskPicked(s, A, P)) <=> (P \in Eligible(A))

C8_Witness ==
    \E s \in Slots :
       /\ procs[s].pc = "tasks_send"
       /\ Cardinality(Eligible(procs[s].user_id)) >= 2
       /\ procs[s].promo_id \in Eligible(procs[s].user_id)

\* C9: claimed_promos holds at most one row per (account, promotion); a pair is
\* claimed exactly when claim_promo has run for it; no step removes a row.
C9_OneClaimRowPerPair ==
    /\ [](\A pr \in Pairs :
             /\ claimed_promos[pr] <= 1
             /\ has_claimed_promo(claimed_promos, pr[1], pr[2]) <=> (hist[pr].inserts > 0))
    /\ [][\A pr \in Pairs : claimed_promos'[pr] >= claimed_promos[pr]]_vars

C9_Witness ==
    \E pr \in Pairs :
       /\ hist[pr].inserts >= 2
       /\ claimed_promos[pr] = 1

\* the reward handle_claim_promo / handle_verify_promo pays account A for promotion P
RewardFor(A, P) ==
    IF created[P].promo_type = "normal"
    THEN (IF users[A].is_premium THEN NormalRewardPremium ELSE NormalReward)
    ELSE (IF users[A].is_premium THEN ForceJoinRewardPremium ELSE ForceJoinReward)

Claimants(P) == { A \in DOMAIN users : <<A, P>> \in completed }
Funded(A) == { P \in DOMAIN promotions : created[P].promoter_user_id = A }
Quiet == \A s \in Slots : procs[s].pc = "idle"

\* C10: funding budget b from balance c (0 < b <= c) leaves balance c - b and a
\* promotion of budget b; once b distinct other accounts have claimed it, its budget
\* is 0, every claimant holds its start balance plus its reward, and tasks returns
\* the promotion to no account.
C10_FundThenClaimScenario ==
    /\ [][\A s \in Slots :
             (procs[s].pc = "fund_debit" /\ procs'[s].pc = "idle") =>
                LET A == procs[s].user_id
                    b == procs[s].budget
                    c == users[A].credits
                IN /\ 0 < b /\ b <= c
                   /\ users'[A].credits = c - b
                   /\ promotions[Len(promotions)] =
                         [promoter_user_id |-> A, promo_type |-> procs[s].promo_type,
                          budget |-> b,
                          channel_id |-> IF procs[s].promo_type = "normal" THEN 0
                                         ELSE users[A].force_join_channel_id,
                          promo_url |-> IF procs[s].promo_type = "normal"
                                        THEN users[A].normal_promo_url ELSE ""]]_vars
    /\ [](Quiet =>
             /\ \A A \in DOMAIN users :
                   users[A].credits =
                      DefaultCredits
                      - SumOver(Funded(A), [P \in Funded(A) |-> created[P].budget])
                      + SumOver({ P \in DOMAIN promotions : A \in Claimants(P) },
                                [P \in DOMAIN promotions |-> RewardFor(A, P)])
             /\ \A P \in DOMAIN promotions :
                   Cardinality(Claimants(P)) >= created[P].budget =>
                      /\ promotions[P].budget = 0
                      /\ promotions[P].promoter_user_id \notin Claimants(P)
                      /\ \A A \in DOMAIN users : ~ ENABLED TaskPicked(1, A, P))

\* budget 3 funded from balance 5: balance 2, three claimants, the fourth finds no task
C10_Witness ==
    /\ Quiet
    /\ Len(promotions) = 1
    /\ created[1].budget = 3
    /\ users[created[1].promoter_user_id].credits = 2
    /\ promotions[1].budget = 0
    /\ Cardinality(Claimants(1)) = 3
    /\ procs[1].outcome = "no_tasks"
    /\ procs[1].user_id \notin Claimants(1) \cup {created[1].promoter_user_id}

\* the promotion rows inserted by the funding that slot s has not yet debited
Undebited(s) ==
    { P \in DOMAIN promotions :
         /\ procs[s].pc = "fund_debit"
         /\ created[P].promoter_user_id = procs[s].user_id
         /\ created[P].promo_type = procs[s].promo_type
         /\ created[P].budget = procs[s].budget }

\* C11: the owner is debited before the promotion row is created: in no state does
\* a promotion exist, and can be returned to another account by tasks, while the
\* debit of its budget is still outstanding.
C11_DebitBeforeCreate ==
    \A s \in Slots : \A P \in Undebited(s) :
       \A s2 \in Slots, B \in DOMAIN users : ~ ENABLED TaskPicked(s2, B, P)

\* slot s takes the step that ends a fan-out and sends its report
Reports(s) ==
    /\ procs[s].pc \in {"broadcast_debit", "share_report", "admin_send"}
    /\ procs'[s].pc = "idle"

\* the sends of a fan-out that the transport refused
Failed(loc) == { i \in DOMAIN loc.attempts : ~loc.attempts[i].delivered }

\* C12: a fan-out over N targets of which the transport refuses K, in any positions,
\* goes on past every failure and reports succeeded = N - K and failed = K.
C12_ReportCountsEveryTarget ==
    [][\A s \in Slots :
          Reports(s) =>
             LET loc == procs[s]
                 N == loc.n
                 K == Cardinality(Failed(loc))
             IN /\ Len(loc.attempts) = N
                /\ loc.s = N - K
                /\ loc.f = K
                /\ loc.s + loc.f = N]_vars

\* a loop that went on after its first target failed
C12_Witness ==
    \E s \in Slots :
       /\ procs[s].pc = "share_report"
       /\ procs[s].n = 2
       /\ ~procs[s].attempts[1].delivered
       /\ procs[s].attempts[2].delivered
       /\ procs[s].s = 1 /\ procs[s].f = 1

\* the caller's counters that a fan-out may debit
Quotas(row) == <<row.credits, row.image_broadcasts_left, row.daily_promo_runs>>

\* C13: a failed send debits nothing, and a fan-out in which every target failed
\* leaves the caller's balance, image allowance and daily runs as they were.
C13_FailedSendsCostNothing ==
    [][\A s \in Slots :
          (procs'[s] # procs[s] /\ procs[s].pc \notin {"idle", "share_query"}
             /\ procs[s].n > 0 /\ procs[s].s = 0 /\ procs'[s].s = 0) =>
                Quotas(users'[procs[s].user_id]) = Quotas(users[procs[s].user_id])]_vars

FanoutPcs == {"broadcast_send", "share_send", "admin_send"}
ReportOutcomes == {"broadcast_complete", "promotion_sent", "broadcast_report"}

\* C14: every fan-out ends with its report whatever the transport does, and sends
\* to each of its targets at most once.
C14_FanoutEndsOneAttemptEach ==
    /\ \A s \in Slots :
          (procs[s].pc \in FanoutPcs) ~>
             (procs[s].pc = "idle" /\ procs[s].outcome \in ReportOutcomes)
    /\ [](\A s \in Slots : \A i, j \in DOMAIN procs[s].attempts :
             procs[s].attempts[i].target = procs[s].attempts[j].target => i = j)

\* the broadcast to three accounts has met three failures and is about to report
C14_Witness ==
    \E s \in Slots :
       /\ procs[s].pc = "admin_send"
       /\ procs[s].target_users = <<>>
       /\ procs[s].n = 3
       /\ procs[s].f = 3

\* the daily-run cap of an account
RunCap(row) == RunCapOf(row.is_premium)

\* C15: between two daily resets, with no premium change, an account executes no
\* more group fan-outs than its daily-run cap, also when its group shares interleave.
C15_GroupSharesWithinCap ==
    \A A \in DOMAIN users : usage[A].group_shares <= RunCap(users[A])

\* C16: the image allowance is never negative, and an account delivers no more
\* images between two image resets than the allowance it had at the start.
C16_ImagesWithinAllowance ==
    \A A \in DOMAIN users :
       /\ users[A].image_broadcasts_left >= 0
       /\ usage[A].image_sent <= usage[A].image_start

\* C17: the daily-run counter is never negative: it only goes down by one from a
\* value above 0, and every other change sets it to 2 or 5.
C17_RunsNeverNegative ==
    /\ [](\A A \in DOMAIN users : users[A].daily_promo_runs >= 0)
    /\ [][\A A \in DOMAIN users :
             users'[A].daily_promo_runs # users[A].daily_promo_runs =>
                \/ /\ users[A].daily_promo_runs > 0
                   /\ users'[A].daily_promo_runs = users[A].daily_promo_runs - 1
                \/ users'[A].daily_promo_runs \in {DefaultPromoRuns, PremiumPromoRuns}]_vars

\* a group share is about to use a run of an account that has none left
C17_Witness ==
    \E s \in Slots :
       /\ procs[s].pc = "share_send"
       /\ procs[s].target_users = <<>>
       /\ users[procs[s].user_id].daily_promo_runs = 0

NoDuplicates(seq) == \A i, j \in DOMAIN seq : seq[i] = seq[j] => i = j

\* the limits asked of the sampling queries
SampleLimits == {1, 2, GroupLimit, GroupLimitPremium}

AdminGroups == { g \in DOMAIN groups : groups[g].is_admin }
OtherAccounts(excluding) ==
    { x \in DOMAIN users : x # excluding /\ ~users[x].is_banned }

\* slot s takes the step of execute_group_share that draws the groups
DrawsGroups(s) == procs[s].pc = "share_query" /\ procs'[s] # procs[s]

\* C18: for a limit >= 1 both sampling queries return a list without duplicates of
\* exactly min(limit, eligible population) ids, so never more than limit.
C18_SampleSizeNoDuplicates ==
    /\ [](\A limit \in SampleLimits :
             /\ \A r \in get_random_groups(groups, limit) :
                   /\ NoDuplicates(r)
                   /\ Len(r) = Min(limit, Cardinality(AdminGroups))
                   /\ Len(r) <= limit
             /\ \A excluding \in DOMAIN users :
                   \A r \in get_random_users_for_broadcast(users, excluding, limit) :
                      /\ NoDuplicates(r)
                      /\ Len(r) = Min(limit, Cardinality(OtherAccounts(excluding)))
                      /\ Len(r) <= limit)
    /\ [][\A s \in Slots :
             DrawsGroups(s) =>
                /\ NoDuplicates(procs'[s].target_users)
                /\ Len(procs'[s].target_users) =
                      Min(procs[s].limit, Cardinality(AdminGroups))]_vars

\* two groups with the bot as administrator, limit 10: exactly two groups drawn
C18_Witness ==
    \E s \in Slots :
       /\ procs[s].pc = "share_send"
       /\ procs[s].limit = GroupLimitPremium
       /\ Cardinality(AdminGroups) = 2
       /\ procs[s].n = 2
       /\ procs[s].attempts = <<>>

\* C19: the group query returns only groups whose admin flag is true at the call,
\* the account query only accounts that are not banned and not the excluded one.
C19_SampleOnlyEligible ==
    /\ [](\A limit \in SampleLimits :
             /\ \A r \in get_random_groups(groups, limit) :
                   \A i \in DOMAIN r : r[i] \in DOMAIN groups /\ groups[r[i]].is_admin
             /\ \A excluding \in DOMAIN users :
                   \A r \in get_random_users_for_broadcast(users, excluding, limit) :
                      \A i \in DOMAIN r :
                         /\ r[i] \in DOMAIN users
                         /\ r[i] # excluding
                         /\ ~users[r[i]].is_banned)
    /\ [][\A s \in Slots :
             /\ DrawsGroups(s) =>
                   \A i \in DOMAIN procs'[s].target_users :
                      groups[procs'[s].target_users[i]].is_admin
             /\ (procs[s].pc = "idle" /\ procs'[s].pc = "broadcast_send") =>
                   \A i \in DOMAIN procs'[s].target_users :
                      /\ procs'[s].target_users[i] # procs'[s].user_id
                      /\ ~users[procs'[s].target_users[i]].is_banned]_vars

\* an image broadcast drawn while an account is banned and a group is not administered
C19_Witness ==
    \E s \in Slots :
       /\ procs[s].pc = "broadcast_send"
       /\ procs[s].n = 1
       /\ procs[s].attempts = <<>>
       /\ \E x \in DOMAIN users : users[x].is_banned
       /\ \E g \in DOMAIN groups : ~groups[g].is_admin

\* C20: the daily reset adds the referral balance to the credits and keeps it, sets
\* the daily runs to 5 for a premium account and to 2 otherwise, and changes nothing else.
C20_DailyResetEffect ==
    [][\A A \in DOMAIN users :
          users'[A] = [users[A] EXCEPT
                         !.credits = users[A].credits + users[A].referral_credits,
                         !.daily_promo_runs = IF users[A].is_premium THEN 5 ELSE 2]]_vars

\* balance 10 with bonus 2 has become balance 12 with bonus 2
C20_Witness ==
    \E A \in DOMAIN users :
       /\ users[A].credits = 2 * DefaultCredits + ReferralBonus
       /\ users[A].referral_credits = ReferralBonus
       /\ users[A].daily_promo_runs = RunCap(users[A])

\* C21: the daily reset applied twice in a row adds the referral balance twice
\* (balance + 2 x bonus) while its second run leaves the daily runs as the first set
\* them; the weekly reset and the image reset applied twice equal one application.
C21_OnlyBalancesAddUpTwice ==
    LET once == execute_daily_reset(users)
        twice == execute_daily_reset(once)
    IN /\ \A A \in DOMAIN users :
             /\ twice[A].credits = users[A].credits + 2 * users[A].referral_credits
             /\ twice[A].daily_promo_runs = once[A].daily_promo_runs
             /\ users[A].referral_credits > 0 => twice[A].credits # once[A].credits
       /\ execute_weekly_reset(execute_weekly_reset(users)) = execute_weekly_reset(users)
       /\ reset_all_premium_image_broadcasts(reset_all_premium_image_broadcasts(users))
             = reset_all_premium_image_broadcasts(users)

\* balance 10 with bonus 2 after two daily resets, the views counter and the image
\* allowance reset as well
C21_Witness ==
    \E A \in DOMAIN users :
       /\ users[A].credits = 2 * DefaultCredits + 2 * ReferralBonus
       /\ users[A].referral_credits = ReferralBonus
       /\ users[A].is_premium
       /\ users[A].clicks_received = 0
       /\ users[A].image_broadcasts_left = ImageBroadcastCap
       /\ usage[A].image_start = ImageBroadcastCap

\* what the claim calls a rejected input
InvalidBudget(text, user) ==
    int(text) = <<>> \/ int(text)[1] <= 0 \/ int(text)[1] > user.credits
InvalidUrl(url) == ~(startswith(url, "http://") \/ startswith(url, "https://"))
InvalidCount(text, user) ==
    \/ int(text) = <<>>
    \/ int(text)[1] <= 0
    \/ int(text)[1] > user.image_broadcasts_left
    \/ Cost(int(text)[1]) > user.credits

\* the step of slot s changes nothing durable, sends nothing and ends the handler
Rejects(s) ==
    /\ UNCHANGED <<users, promotions, claimed_promos, groups, usage, feature_flags,
                   tokens, created>>
    /\ procs'[s].pc = "idle"
    /\ procs'[s].attempts = <<>>

\* C22: a budget that is not a number, <= 0 or above the balance, a URL without
\* http:// or https://, and a count that is not a number, <= 0, above the allowance
\* or too costly, each change no durable state and send nothing, and the step
\* returns the state it was dispatched in, so the same input step comes next.
C22_RejectedInputChangesNothing ==
    [][procs[1].pc = "idle" =>
          \A user_id \in DOMAIN users \cap {procs'[1].user_id} :
             /\ \A text \in { t \in BudgetTexts : InvalidBudget(t, users[user_id]) } :
                   (\E promo_type \in PromoTypes :
                       BudgetMessage(1, user_id, text, promo_type, MaxInputPromos))
                   => Rejects(1) /\ Returned(procs'[1].outcome) = AWAIT_BUDGET
             /\ \A url \in { u \in UrlTexts : InvalidUrl(u) } :
                   get_link_url(1, user_id, url)
                   => Rejects(1) /\ Returned(procs'[1].outcome) = LINK_URL
             /\ \A text \in { t \in CountTexts : InvalidCount(t, users[user_id]) } :
                   CountMessage(1, user_id, text)
                   => Rejects(1) /\ Returned(procs'[1].outcome) = AWAIT_BROADCAST_COUNT]_vars

\* the premium account, left with one credit after funding a promotion, has asked
\* for eleven images: two credits, more than it has
C22_Witness ==
    /\ procs[1].outcome = "insufficient_funds"
    /\ procs[1].pc = "idle"
    /\ users[procs[1].user_id].credits = 1
    /\ Len(promotions) = 1

\* the callback data that is not "kind_id_id" (claim), "kind_id_id_id" (verify) or
\* "kind_id" (report) with every id a number
Malformed(data) ==
    LET fields == split(data, "") IN
    \/ fields[1] = "claim" /\ Len(fields) # 3
    \/ fields[1] = "verify" /\ Len(fields) # 4
    \/ fields[1] = "report" /\ Len(fields) # 2
    \/ \E i \in 2..Len(fields) : int(fields[i]) = <<>>

\* C23: a claim, verify or report token with the wrong number of fields or an id
\* that is no number is answered with an invalid-request reply: the handler does
\* not raise, and no claim, budget, balance or views counter changes.
C23_MalformedTokenRejected ==
    [][procs[1].pc = "idle" =>
          \A user_id \in DOMAIN users \cap {procs'[1].user_id} :
             \A data \in { d \in DataTexts : Malformed(d) } :
                (~users[user_id].is_banned /\ ButtonData(1, user_id, data))
                => /\ procs'[1].outcome = "invalid_request"
                   /\ UNCHANGED <<users, promotions, claimed_promos>>]_vars

\* the part of C23 about the store alone: a malformed token changes no claim,
\* budget, balance or views counter
C23_MalformedTokenChangesNothing ==
    [][procs[1].pc = "idle" =>
          \A user_id \in DOMAIN users \cap {procs'[1].user_id} :
             \A data \in { d \in DataTexts : Malformed(d) } :
                ButtonData(1, user_id, data)
                => /\ UNCHANGED <<users, promotions, claimed_promos>>
                   /\ procs'[1].pc = "idle"]_vars

\* C24: a claim or verify request that names a promotion id not in the store is
\* answered as unavailable: no claim row is recorded for it, no reward is credited
\* to the requester and no views counter is incremented.
C24_UnknownPromotionUnavailable ==
    \A A \in DOMAIN users, P \in PromoIds \ DOMAIN promotions :
       /\ claimed_promos[<<A, P>>] = 0
       /\ hist[<<A, P>>].paid = 0
       /\ hist[<<A, P>>].views = 0

\* C25: a gated behaviour is executed only while its feature flag is enabled: a
\* group fan-out send is made only with group_promotion enabled, a force-join
\* promotion is created or rewarded only with force_join_promotion enabled, an
\* image broadcast send is made only with premium_image_caption enabled.
C25_GatedOnlyWhileEnabled ==
    [][\A s \in Slots :
          /\ (procs[s].pc = "share_send"
                 /\ Len(procs'[s].attempts) > Len(procs[s].attempts))
                => get_feature_flag(feature_flags, "group_promotion")
          /\ (procs[s].pc = "fund_add" /\ Len(created') > Len(created)
                 /\ created'[Len(created')].promo_type = "force_join")
                => get_feature_flag(feature_flags, "force_join_promotion")
          /\ (procs[s].pc = "verify_credit" /\ procs'[s].pc = "verify_views")
                => get_feature_flag(feature_flags, "force_join_promotion")
          /\ (procs[s].pc = "broadcast_send"
                 /\ Len(procs'[s].attempts) > Len(procs[s].attempts))
                => get_feature_flag(feature_flags, "premium_image_caption")]_vars

\* C26: the flag names are the three seeded ones in every state, and a step changes
\* a flag's value only as the set step of a toggle issued by an account in
\* ADMIN_IDS for an existing name, and then only that flag: a non-admin's toggle, a
\* toggle of an unknown name and a re-run of initialize_database change nothing.
C26_FlagsChangeOnlyByAdminToggle ==
    /\ [](DOMAIN feature_flags = FlagNames)
    /\ [][feature_flags' # feature_flags =>
            \E s \in Slots :
               /\ procs[s].pc = "toggle_set"
               /\ procs'[s].pc = "idle"
               /\ procs[s].user_id \in ADMIN_IDS
               /\ ~users[procs[s].user_id].is_banned
               /\ procs[s].feature_name \in FlagNames
               /\ \A name \in FlagNames \ {procs[s].feature_name} :
                     feature_flags'[name] = feature_flags[name]]_vars

\* a flag switched off by the administrator, then a toggle sent by another account
C26_Witness ==
    /\ ~feature_flags["force_join_promotion"]
    /\ procs[1].outcome = "no_reply"
    /\ procs[1].user_id \notin ADMIN_IDS

\* C27: after every processed membership event for a group, the stored admin flag
\* of that group equals the status observed in the event, also when the group is
\* already registered with the other status.
C27_AdminFlagIsLastObserved ==
    [][\A s \in Slots, group_id \in GroupIds, adder_user_id \in Adders \cap DOMAIN users,
          is_admin \in BOOLEAN, member_count \in MemberCounts :
          GroupEvent(s, group_id, adder_user_id, is_admin, member_count)
             => /\ get_group(groups', group_id) # <<>>
                /\ get_group(groups', group_id)[1].is_admin = is_admin]_vars

\* C28: a successful first claim by account A of promotion P owned by O changes
\* exactly this: the row (A, P) is recorded, the budget of P drops by 1, the balance
\* of A rises by the reward of P's type (normal 1, premium 2; force-join 2, premium
\* 4), the views counter of O rises by 1; no other account, promotion or claim row
\* changes.  Stated step by step over the store calls of the two claim handlers.
C28_FirstClaimExactEffects ==
    [][\A s \in Slots :
          LET loc == procs[s]
              A == loc.user_id
              P == loc.promo_id
          IN (P \in DOMAIN promotions /\ procs'[s] # loc /\ <<A, P>> \notin completed) =>
             /\ loc.pc \in {"claim_insert", "verify_insert"} =>
                   /\ claimed_promos' = [claimed_promos EXCEPT ![<<A, P>>] = 1]
                   /\ UNCHANGED <<users, promotions>>
             /\ loc.pc \in {"claim_decrement", "verify_decrement"} =>
                   /\ promotions' = [promotions EXCEPT ![P].budget = @ - 1]
                   /\ UNCHANGED <<users, claimed_promos>>
             /\ loc.pc \in {"claim_get_user", "verify_get_user"} =>
                   UNCHANGED <<users, promotions, claimed_promos>>
             /\ loc.pc \in {"claim_credit", "verify_credit"} =>
                   /\ users' = [users EXCEPT ![A].credits = @ + RewardFor(A, P)]
                   /\ UNCHANGED <<promotions, claimed_promos>>
             /\ loc.pc \in {"claim_views", "verify_views"} =>
                   /\ users' = [users EXCEPT
                                  ![promotions[P].promoter_user_id].clicks_received = @ + 1]
                   /\ UNCHANGED <<promotions, claimed_promos>>]_vars

\* C29: set_premium(account, days) sets the premium flag, the daily-run counter to
\* 5 and the image allowance to 100 (and the expiry to today + days); remove_premium
\* clears the premium flag and the expiry and sets the daily-run counter to 2; both
\* leave the account's credits, referral credits, ban flag and views counter, and
\* every other account, unchanged.
C29_PremiumSetAndClear ==
    [][\A admin_id \in ADMIN_IDS \cap DOMAIN users, user_id \in DOMAIN users :
          LET before == users[user_id]
              after == users'[user_id]
              Kept == /\ after.credits = before.credits
                      /\ after.referral_credits = before.referral_credits
                      /\ after.is_banned = before.is_banned
                      /\ after.clicks_received = before.clicks_received
                      /\ \A x \in DOMAIN users \ {user_id} : users'[x] = users[x]
                      /\ DOMAIN users' = DOMAIN users
          IN /\ \A days \in DaysInputs :
                   PremiumDaysMessage(1, admin_id, user_id, days) =>
                      /\ after.is_premium
                      /\ after.premium_expiry = <<Today + days>>
                      /\ after.daily_promo_runs = PremiumPromoRuns
                      /\ after.image_broadcasts_left = ImageBroadcastCap
                      /\ Kept
             /\ RemovePremiumMessage(1, admin_id, user_id) =>
                   /\ ~after.is_premium
                   /\ after.premium_expiry = <<>>
                   /\ after.daily_promo_runs = DefaultPromoRuns
                   /\ Kept]_vars

\* premium was granted while some banned account holds ten credits and a referral
\* bonus, and the grant left an account premium with a full run counter
C29_Witness ==
    /\ procs[1].outcome = "premium_set"
    /\ \E x \in DOMAIN users :
          /\ users[x].is_premium /\ users[x].daily_promo_runs = PremiumPromoRuns
          /\ users[x].is_banned /\ users[x].credits = 2 * DefaultCredits
          /\ users[x].referral_credits = ReferralBonus
          /\ users[x].premium_expiry = <<Today + ShortPremiumDays>>

\* C30: the referral grant raises only the inviter's referral_credits, by the
\* amount: the inviter's credits are unchanged by it, and a grant that names an
\* account not in the store changes nothing; a balance of credits rises by the
\* referral balance only in the step of the daily reset.
C30_ReferralBonusOnlyAtReset ==
    [][/\ \A s \in Slots :
            (procs[s].pc = "start_grant" /\ procs'[s].pc = "start_notify") =>
               LET inviter_id == procs[s].inviter_id[1] IN
               IF inviter_id \in DOMAIN users
               THEN users' = [users EXCEPT
                                ![inviter_id].referral_credits = @ + ReferralBonus]
               ELSE users' = users
       /\ \A x \in DOMAIN users :
            users'[x].credits # users[x].credits =>
               /\ procs' = procs
               /\ users' = execute_daily_reset(users)
               /\ users'[x].credits = users[x].credits + users[x].referral_credits]_vars

\* account 1 was named by a new account: its referral balance is one bonus higher,
\* its credits are still the ones it had
C30_Witness ==
    /\ procs[1].pc = "start_notify"
    /\ procs[1].inviter_id = <<1>>
    /\ users[1].referral_credits = 2 * ReferralBonus
    /\ users[1].credits = DefaultCredits

\* C31: the weekly reset sets the views counter of every account to 0 and changes
\* nothing else; the image reset sets the image allowance of every premium account
\* to 100 and leaves the allowance of the other accounts, every other field and
\* every other table unchanged.
C31_ResetsChangeOnlyTheirField ==
    [][/\ weekly_leaderboard_reset =>
            /\ DOMAIN users' = DOMAIN users
            /\ \A x \in DOMAIN users :
                  users'[x] = [users[x] EXCEPT !.clicks_received = 0]
            /\ UNCHANGED <<promotions, claimed_promos, groups, feature_flags>>
       /\ reset_image_broadcasts =>
            /\ DOMAIN users' = DOMAIN users
            /\ \A x \in DOMAIN users :
                  users'[x] = IF users[x].is_premium
                              THEN [users[x] EXCEPT !.image_broadcasts_left = 100]
                              ELSE users[x]
            /\ UNCHANGED <<promotions, claimed_promos, groups, feature_flags>>]_vars

\* both jobs have run: no views left, the premium account at the cap, the other
\* account at the allowance it had
C31_Witness ==
    /\ \A x \in DOMAIN users : users[x].clicks_received = 0
    /\ \E x, y \in DOMAIN users :
          /\ users[x].is_premium /\ users[x].image_broadcasts_left = ImageBroadcastCap
          /\ ~users[y].is_premium /\ users[y].image_broadcasts_left = ImagesLeft
          /\ users[y].credits = DefaultCredits /\ users[y].is_banned

\* the calls of decrement_promo_budget made for promotion P so far
DecrementCalls(P) == SumOver(UserIds, [A \in UserIds |-> hist[<<A, P>>].decs])

\* the amount the store call of this step of handler s adds to the credits of x
StepDelta(s, x) ==
    IF procs'[s] = procs[s] \/ procs[s].user_id # x THEN 0
    ELSE IF procs[s].pc \in {"claim_credit", "verify_credit"} THEN procs[s].reward
    ELSE IF procs[s].pc = "fund_debit" THEN -procs[s].budget
    ELSE IF procs[s].pc = "broadcast_debit" THEN -procs[s].cost
    ELSE 0

\* C32: no update of a single row is lost.  In every interleaving each step moves
\* the credits of an account by exactly the amounts the store calls of that step
\* apply (claim reward, funding debit, image-broadcast debit, the referral balance at
\* the daily reset), so a balance is its first value plus all applied amounts; and
\* the budget of a promotion created with budget B is B - min(calls, B) after any
\* number of decrement calls.
C32_NoLostUpdate ==
    /\ [](\A P \in DOMAIN promotions :
             promotions[P].budget =
                created[P].budget - Min(DecrementCalls(P), created[P].budget))
    /\ [][\A x \in DOMAIN users :
             users'[x].credits - users[x].credits =
                IF procs' = procs THEN users[x].referral_credits
                ELSE SumOver(Slots, [s \in Slots |-> StepDelta(s, x)])]_vars

\* two presses of one claim button ran interleaved: two decrement calls were made
\* on a budget of 1, and the account holds both rewards
C32_Witness ==
    \E pr \in Pairs :
       /\ pr[2] \in DOMAIN promotions
       /\ created[pr[2]].budget = 1
       /\ hist[pr].decs = 2
       /\ hist[pr].paid = 2
       /\ promotions[pr[2]].budget = 0

\* C33: a promotion keeps the owner, the type and the payload it was created with,
\* also when its owner later saves another link or another channel; the only change
\* a step makes to a promotion is to lower its budget by 1; no promotion is removed,
\* a promotion at budget 0 included.
C33_PromotionsOnlyLoseBudget ==
    /\ [](\A P \in DOMAIN promotions :
             [promotions[P] EXCEPT !.budget = 0] = [created[P] EXCEPT !.budget = 0])
    /\ [][/\ Len(promotions') >= Len(promotions)
           /\ \A P \in DOMAIN promotions :
                 \/ promotions'[P] = promotions[P]
                 \/ promotions'[P] = [promotions[P] EXCEPT !.budget = @ - 1]]_vars

\* a claimed normal promotion at budget 0 whose owner has saved another link since,
\* and a force-join promotion whose owner has saved another channel since
C33_Witness ==
    \E P, Q \in DOMAIN promotions :
       /\ promotions[P].promo_type = "normal"
       /\ promotions[P].budget = 0
       /\ promotions[P].promo_url # users[promotions[P].promoter_user_id].normal_promo_url
       /\ promotions[Q].promo_type = "force_join"
       /\ promotions[Q].channel_id
             # users[promotions[Q].promoter_user_id].force_join_channel_id

\* account x is in its create-promotion flow and has not chosen a type yet, or the
\* scratch data holds the type it chose
TypeKept(x) ==
    conversations[x] = AWAIT_BUDGET =>
       /\ "promo_type_to_create" \in DOMAIN user_data[x]
       /\ user_data[x]["promo_type_to_create"] \in PromoTypes

\* C34: while a create-promotion flow waits for the budget, the promotion type it
\* stored is present in the scratch data and unchanged, whatever report starts,
\* forwarded messages and menu buttons arrive in between, and the budget step never
\* raises for missing scratch data.
C34_FlowKeepsItsType ==
    /\ [](\A x \in DOMAIN users : TypeKept(x))
    /\ [][\A x \in DOMAIN users :
             (conversations[x] = AWAIT_BUDGET /\ conversations'[x] = AWAIT_BUDGET
              /\ TypeKept(x)) =>
                user_data'[x]["promo_type_to_create"] = user_data[x]["promo_type_to_create"]]_vars
    /\ [](procs[1].outcome # "KeyError")

\* a step in which the flow of account x leaves its intermediate states
FlowEnds(x) == conversations[x] \in FlowStates /\ conversations'[x] = END

\* C35: when a create-promotion flow ends, by completion or by /cancel, the scratch
\* data is empty afterwards; and the back-to-menu fallback ends the flow: after it
\* the account is in no intermediate state and its scratch data is empty.
C35_FlowEndLeavesNothing ==
    [][\A x \in DOMAIN users :
          /\ FlowEnds(x) => user_data'[x] = NoData
          /\ BackToMain(1, x) => conversations'[x] = END /\ user_data'[x] = NoData]_vars

\* a status with which the account counts as having joined the channel
Joined(status) == status \in {"member", "administrator", "creator"}

\* C36: a verify goes on to its claim only when the membership lookup returns
\* member, administrator or creator.  With any other status, or when the lookup
\* fails, the handler ends there: no claim is recorded, no budget, balance or views
\* counter changes, and the account, still without a claim, can verify again.
C36_RewardOnlyForMembers ==
    /\ [][\A status \in MemberStatuses :
             VerifyMemberWith(1, status) =>
                /\ UNCHANGED <<users, promotions, claimed_promos, hist, tokens>>
                /\ IF Joined(status)
                   THEN procs'[1].pc = "verify_insert"
                   ELSE /\ procs'[1].pc = "idle"
                        /\ procs'[1].outcome \in {"not_joined", "verify_error"}
                        /\ ~has_claimed_promo(claimed_promos', procs[1].user_id,
                                              procs[1].promo_id)]_vars
    /\ [][(procs[1].pc # "verify_insert" /\ procs'[1].pc = "verify_insert") =>
             \E status \in MemberStatuses : Joined(status) /\ VerifyMemberWith(1, status)]_vars

\* a verify has just ended at a lookup that did not return a membership: the pair
\* is unclaimed, the promotion keeps its budget and the button is still there
C36_Witness ==
    /\ procs[1].pc = "idle"
    /\ procs[1].outcome \in {"not_joined", "verify_error"}
    /\ \E tok \in tokens :
          /\ tok.kind = "verify" /\ tok.user_id = procs[1].user_id
          /\ ~has_claimed_promo(claimed_promos, tok.user_id, tok.promo_id)
          /\ promotions[tok.promo_id].budget > 0

\* C37: with claims and verifies started only from buttons that tasks has sent, no
\* promotion has a claim row of its owner, no button offers a promotion to its
\* owner, and no reward, budget unit or view was ever booked for an owner's claim
\* of its own promotion.
C37_NoClaimOfOwnPromotion ==
    \A P \in DOMAIN promotions :
       LET A == promotions[P].promoter_user_id IN
          /\ claimed_promos[<<A, P>>] = 0
          /\ hist[<<A, P>>] = NoHist
          /\ \A tok \in tokens : ~(tok.user_id = A /\ tok.promo_id = P)

\* account A has been paid for a promotion Q while its own, older promotion P still
\* had budget: when tasks picked Q for A, P was a funded promotion A had not claimed
C37_Witness ==
    \E P \in DOMAIN promotions, Q \in DOMAIN promotions :
       LET A == promotions[P].promoter_user_id IN
          /\ P < Q
          /\ promotions[P].budget > 0
          /\ promotions[Q].promoter_user_id # A
          /\ hist[<<A, Q>>].paid = 1

\* the /start handlers that have made their grant and not yet added their account
Granted == { s \in Slots : \/ procs[s].pc = "start_notify"
                            \/ /\ procs[s].pc = "start_add"
                               /\ procs[s].inviter_id # <<>>
                               /\ procs[s].inviter_id[1] # procs[s].user_id }

\* C38: a /start goes on to the grant only for an account that is not in the store,
\* in a private chat, with an inviter id that is not its own; a referral balance
\* changes in that grant only, by 2; and all grants together never exceed 2 per
\* account registered since, so no account brings its inviter the bonus twice.
C38_OneGrantPerInvitedAccount ==
    /\ [][/\ \A user_id \in StartIds, args \in StartArgs, chat_type \in ChatTypes :
               (StartCheck(1, user_id, args, chat_type) /\ procs'[1].pc = "start_grant") =>
                  /\ user_id \notin DOMAIN users
                  /\ chat_type = "private"
                  /\ int(args[1]) # <<>> /\ int(args[1])[1] # user_id
          /\ \A x \in DOMAIN users :
               users'[x].referral_credits # users[x].referral_credits =>
                  /\ StartGrant(1)
                  /\ procs[1].inviter_id = <<x>>
                  /\ procs[1].user_id \notin DOMAIN users
                  /\ users'[x].referral_credits = users[x].referral_credits + ReferralBonus]_vars
    /\ [](SumOver(DOMAIN users, [x \in DOMAIN users |-> users[x].referral_credits])
             <= ReferralBonus
                + ReferralBonus * (Cardinality(DOMAIN users) - NumReferralUsers
                                   + Cardinality(Granted)))

\* accounts 3 and 4 have both registered, account 1 was granted the bonus once and
\* account 2 never: at least one /start that named an inviter granted nothing
C38_Witness ==
    /\ DOMAIN users = 1..MaxReferralUsers
    /\ procs[1].pc = "idle"
    /\ users[1].referral_credits = 2 * ReferralBonus
    /\ \A x \in 2..MaxReferralUsers : users[x].referral_credits = 0

\* the credits the accounts hold together
TotalCredits == SumOver(DOMAIN users, [x \in DOMAIN users |-> users[x].credits])

\* C39: a membership event pays the bonus (5, or 10 to a premium adder) exactly
\* when the group is not registered yet, the bot is administrator there and the
\* group has more than 600 members; an event for a registered group pays nothing;
\* and all bonuses together never exceed one per registered group.
C39_GroupBonusOncePerGroup ==
    /\ [][\A group_id \in GroupIds, adder_user_id \in DOMAIN users, is_admin \in BOOLEAN,
             member_count \in MemberCounts :
             GroupEvent(1, group_id, adder_user_id, is_admin, member_count) =>
                IF group_id \notin DOMAIN groups /\ is_admin
                   /\ member_count > GroupRewardMembers
                THEN users' = [users EXCEPT ![adder_user_id].credits =
                                  @ + IF users[adder_user_id].is_premium
                                      THEN GroupRewardPremium ELSE GroupReward]
                ELSE users' = users]_vars
    /\ [](TotalCredits <= NumGroupUsers * DefaultCredits
                          + GroupRewardPremium * Cardinality(DOMAIN groups))

\* group 1 earned account 1 the bonus, and a later event for it, again as
\* administrator of a large group, has been processed without a second bonus
C39_Witness ==
    /\ procs[1].outcome = "group_known"
    /\ procs[1].user_id = 1
    /\ DOMAIN groups = {1}
    /\ groups[1].is_admin
    /\ users[1].credits = DefaultCredits + GroupReward

\* the tables of the store
Durable == <<users, promotions, claimed_promos, groups, feature_flags>>

\* the press of a button of button_handler by account x: a task button or the flag
\* switch
GeneralPress(x) ==
    \/ \E data \in BanTexts : ButtonData(1, x, data)
    \/ ToggleCheck(1, x, "toggle_flag_group_promotion")

\* the press of a button of the create-promotion flow by account x
FlowPress(x) ==
    \/ create_promotion_start(1, x)
    \/ get_promotion_type_for_creation(1, x, "create_promo_normal")

\* the handler has ended with the answer a banned account gets
Rejected == procs'[1].pc = "idle" /\ procs'[1].outcome = "banned"

\* C40: a button press by a banned account ends with the ban answer and changes no
\* table, and no account row is ever removed; after an unban the same press is no
\* longer answered with the ban.
C40_BannedPressRejected ==
    [][/\ \A x \in DOMAIN users :
            ((GeneralPress(x) \/ FlowPress(x)) /\ users[x].is_banned) =>
               Rejected /\ UNCHANGED Durable
       /\ \A x \in DOMAIN users :
            ((GeneralPress(x) \/ FlowPress(x)) /\ ~users[x].is_banned) => ~Rejected
       /\ DOMAIN users \subseteq DOMAIN users'
       /\ \A x \in DOMAIN users, admin_id \in ADMIN_IDS, is_banned \in BOOLEAN :
            BanMessage(1, admin_id, x, is_banned) =>
               users' = [users EXCEPT ![x].is_banned = is_banned]]_vars

\* the same for the buttons of button_handler alone
C40_GeneralPressRejected ==
    [][/\ \A x \in DOMAIN users :
            (GeneralPress(x) /\ users[x].is_banned) => Rejected /\ UNCHANGED Durable
       /\ \A x \in DOMAIN users : (GeneralPress(x) /\ ~users[x].is_banned) => ~Rejected
       /\ DOMAIN users \subseteq DOMAIN users'
       /\ \A x \in DOMAIN users, admin_id \in ADMIN_IDS, is_banned \in BOOLEAN :
            BanMessage(1, admin_id, x, is_banned) =>
               users' = [users EXCEPT ![x].is_banned = is_banned]]_vars

\* no promotion is owned by an account that was banned when it was created
C40_NoPromotionWhileBanned ==
    [][\A s \in Slots : FundAdd(s) => ~users[procs[s].user_id].is_banned]_vars

====
